---- MODULE Spec2Model ----
(***************************************************************************)
(* SAKA (google/saka): the keyword classifier SearchTermTransformer, the   *)
(* report client GoogleAdsClient and the Cloud Function's entry point      *)
(* extract_and_upload_keywords of main.py.                                 *)
(*                                                                         *)
(* Spec.  One behaviour is one transformer: __init__ on its constructor    *)
(* arguments, then one call of transform_search_terms_to_keywords on a     *)
(* search-term report and an ad-group report, stepped one iteration of     *)
(* its for-loop at a time, ending with the DataFrame it returns.           *)
(*                                                                         *)
(* AdsSpec.  One behaviour is one GoogleAdsClient: __init__, then a call   *)
(* of get_search_terms or get_ad_groups, stepped one batch of the result   *)
(* stream at a time, against a service that answers or fails.              *)
(*                                                                         *)
(* MainSpec.  One behaviour is one run of extract_and_upload_keywords on   *)
(* an environment, a secret store and a service: the actions of the        *)
(* client and of the transformer are the steps of the calls it makes.      *)
(*                                                                         *)
(* CallsSpec.  One behaviour is one process in which transformers are      *)
(* constructed and called several times, on the list of columns that       *)
(* constants.py shares between the calls.                                  *)
(*                                                                         *)
(* UploadSpec.  One behaviour is several calls of                          *)
(* SA360Client.upload_keywords_to_sa360, on one or several days, against   *)
(* one SFTP server that answers or fails.                                  *)
(*                                                                         *)
(* Representation.  A Python str that the code only copies or tests for    *)
(* emptiness is a TLA+ string.  A str the code takes apart (search_term    *)
(* for split(), keyword_max_cpc for decimal.Decimal, the settings for      *)
(* strip() and float(), customer_id for isdigit()) is a sequence of        *)
(* one-character strings.  conversions, clicks and the thresholds are      *)
(* integers; a ctr is an integer number of tenths (5 is 0.5).  A           *)
(* decimal.Decimal with two places is an integer number of cents.  A dict  *)
(* is a function on its keys, a list a sequence.                           *)
(***************************************************************************)
EXTENDS Integers, Sequences, FiniteSets, TLC

\* ------------------------------------------------------------ bounds
\* Longest search-term report explored (MaxUnitRows where the rows range over
\* every combination of the numeric fields) and longest ad-group report.
MaxRows == 2
MaxUnitRows == 1
MaxAdGroups == 1

\* ------------------------------------------------------------ constants.py
DEFAULT_CLICKS_THRESHOLD == 5
DEFAULT_CONVERSIONS_THRESHOLD == 0
DEFAULT_SEARCH_TERM_TOKENS_THRESHOLD == 3
DEFAULT_SA360_LABEL == "SA_add"

MATCH_TYPE_BROAD == "broad"
MATCH_TYPE_EXACT == "exact"
MATCH_TYPE_PHRASE == "phrase"

SA_360_COLUMN_ROW_TYPE == "Row type"
SA_360_COLUMN_ACTION == "Action"
SA_360_COLUMN_ACCOUNT == "Account"
SA_360_COLUMN_CAMPAIGN == "Campaign"
SA_360_COLUMN_AD_GROUP == "Ad group"
SA_360_COLUMN_KEYWORD == "Keyword"
SA_360_COLUMN_KEYWORD_MATCH_TYPE == "Keyword match type"
SA_360_COLUMN_LABEL == "Label"
SA_360_COLUMN_KEYWORD_LANDING_PAGE == "Keyword landing page"
SA_360_COLUMN_KEYWORD_MAX_CPC == "Keyword max CPC"

SA_360_BULKSHEET_COLUMNS ==
  << SA_360_COLUMN_ROW_TYPE, SA_360_COLUMN_ACTION, SA_360_COLUMN_ACCOUNT,
     SA_360_COLUMN_CAMPAIGN, SA_360_COLUMN_AD_GROUP, SA_360_COLUMN_KEYWORD,
     SA_360_COLUMN_KEYWORD_MATCH_TYPE, SA_360_COLUMN_LABEL >>

\* ------------------------------------------------------------ Python values
None == "None"
NaN == "NaN"

Range(s) == { s[p] : p \in 1..Len(s) }

\* str.isspace for one character.
IsSpace(ch) == ch \in {" ", "\t", "\n"}

\* str.split() with no separator: the maximal runs of non-whitespace
\* characters, in order; leading, trailing and repeated whitespace yield no
\* empty token.  SplitFrom scans s from position p with the token under
\* construction in cur.
RECURSIVE SplitFrom(_, _, _)
SplitFrom(s, p, cur) ==
  IF p > Len(s)
    THEN IF cur = <<>> THEN <<>> ELSE <<cur>>
    ELSE IF IsSpace(s[p])
      THEN IF cur = <<>>
             THEN SplitFrom(s, p + 1, <<>>)
             ELSE <<cur>> \o SplitFrom(s, p + 1, <<>>)
      ELSE SplitFrom(s, p + 1, Append(cur, s[p]))

Split(s) == SplitFrom(s, 1, <<>>)

\* dict.update: the keys of both, the values of other where both have the key.
DictUpdate(d, other) ==
  [ k \in (DOMAIN d) \cup (DOMAIN other) |->
      IF k \in DOMAIN other THEN other[k] ELSE d[k] ]

\* The empty dict.
EmptyDict == [ k \in {} |-> None ]

\* ------------------------------------------------------------ decimal
Digits == <<"0", "1", "2", "3", "4", "5", "6", "7", "8", "9">>

IsDigit(ch) == \E d \in 1..Len(Digits) : Digits[d] = ch

DigitValue(ch) == (CHOOSE d \in 1..Len(Digits) : Digits[d] = ch) - 1

\* Value of a string of digits.
RECURSIVE DigitsValue(_)
DigitsValue(s) ==
  IF s = <<>> THEN 0
  ELSE 10 * DigitsValue(SubSeq(s, 1, Len(s) - 1)) + DigitValue(s[Len(s)])

RECURSIVE Pow10(_)
Pow10(n) == IF n = 0 THEN 1 ELSE 10 * Pow10(n - 1)

\* Position of the first "." of s, or 0.
DotAt(s) ==
  IF \E p \in 1..Len(s) : s[p] = "."
    THEN CHOOSE p \in 1..Len(s) : s[p] = "." /\ \A q \in 1..(p - 1) : s[q] # "."
    ELSE 0

\* Position of the exponent marker of s, or 0.
ExpAt(s) ==
  IF \E p \in 1..Len(s) : s[p] \in {"e", "E"}
    THEN CHOOSE p \in 1..Len(s) :
           s[p] \in {"e", "E"} /\ \A q \in 1..(p - 1) : s[q] \notin {"e", "E"}
    ELSE 0

\* The part of s before the exponent marker, and the digits after it.
Mantissa(s) == IF ExpAt(s) = 0 THEN s ELSE SubSeq(s, 1, ExpAt(s) - 1)

Exponent(s) == IF ExpAt(s) = 0 THEN <<>> ELSE SubSeq(s, ExpAt(s) + 1, Len(s))

\* decimal.Decimal(s) accepts (among the strings explored) digits with at most
\* one "." and at least one digit, optionally followed by an exponent marker
\* and at least one digit; anything else raises InvalidOperation.
IsDecimalString(s) ==
  LET m == Mantissa(s)
      dot == DotAt(m)
      ip == IF dot = 0 THEN m ELSE SubSeq(m, 1, dot - 1)
      fp == IF dot = 0 THEN <<>> ELSE SubSeq(m, dot + 1, Len(m))
  IN /\ \A p \in 1..Len(ip) : IsDigit(ip[p])
     /\ \A p \in 1..Len(fp) : IsDigit(fp[p])
     /\ Len(ip) + Len(fp) >= 1
     /\ ExpAt(s) # 0 => /\ Exponent(s) # <<>>
                        /\ \A p \in 1..Len(Exponent(s)) : IsDigit(Exponent(s)[p])

\* decimal.Decimal(s) as an exact fraction: the coefficient and the number of
\* fractional digits (Decimal("1.005") is 1005 / 10^3, Decimal("1e2") is
\* 1 / 10^-2).
Decimal(s) ==
  LET m == Mantissa(s)
      dot == DotAt(m)
      ip == IF dot = 0 THEN m ELSE SubSeq(m, 1, dot - 1)
      fp == IF dot = 0 THEN <<>> ELSE SubSeq(m, dot + 1, Len(m))
  IN [ coeff |-> DigitsValue(ip \o fp),
       places |-> Len(fp) - DigitsValue(Exponent(s)) ]

\* Precision of the default decimal context, in digits.
DECIMAL_PREC == 28

\* Number of decimal digits of a natural number.
RECURSIVE NumDigits(_)
NumDigits(n) == IF n < 10 THEN 1 ELSE 1 + NumDigits(n \div 10)

\* round(d, 2) raises InvalidOperation when the result, written with two
\* places, has more digits than the context's precision.
Round2Raises(d) ==
  d.coeff # 0 /\ NumDigits(d.coeff) - d.places + 2 > DECIMAL_PREC

\* round(d, 2) of a Decimal: quantize to two places, ties to the even cent
\* (ROUND_HALF_EVEN, the default context).  The result is in cents.
Round2(d) ==
  IF d.places <= 2
    THEN d.coeff * Pow10(2 - d.places)
    ELSE LET unit == Pow10(d.places - 2)
             q == d.coeff \div unit
             r == d.coeff % unit
         IN IF 2 * r > unit THEN q + 1
            ELSE IF 2 * r < unit THEN q
            ELSE IF q % 2 = 0 THEN q ELSE q + 1

\* An Optional[Decimal] with two places: None, or a number of cents.
NoneDecimal == [ is_none |-> TRUE, cents |-> 0 ]

SomeDecimal(c) == [ is_none |-> FALSE, cents |-> c ]

\* Truth value of an Optional[Decimal] as `if x:` tests it: None is false, and
\* so is a Decimal equal to zero.
DecimalTruthy(x) == ~x.is_none /\ x.cents # 0

\* Truth value of a str as `if s:` tests it.
StrTruthy(s) == s # ""

\* ------------------------------------------------------------ inputs
\* Search terms by token count; TwoTokens has leading, repeated and trailing
\* whitespace.
NoToken == <<>>
OneToken == <<"a">>
TwoTokens == <<" ", "a", " ", "\t", "b", " ">>
ThreeTokens == <<"a", " ", "b", " ", "c">>
FourTokens == <<"a", " ", "b", " ", "c", " ", "d">>

AdGroupNames == {"ag1", "ag2"}
CampaignNames == {"camp1", "camp2"}

\* One row of the search-term report (constants.SEARCH_REPORT_COLUMNS).
SearchTermRow(terms, conversions, clicks, ctrs, names, campaigns) ==
  [ search_term : terms, status : {"NONE"},
    conversions : conversions, clicks : clicks,
    ad_group_name : names, campaign_id : {"12345"},
    campaign_name : campaigns, ctr : ctrs, keyword_text : {""} ]

\* One row of the ad-group report (constants.AD_GROUP_COLUMNS).
AdGroupRows == [ ad_group_name : AdGroupNames, ctr : {5} ]

\* All sequences over S of length at most n.
SeqsUpTo(S, n) == UNION { [1..k -> S] : k \in 0..n }

\* keyword_max_cpc settings: unset, whole, zero, rounding to zero, ties
\* (1.005 rounds to the even cent 1.00, 1.015 to 1.02), with an exponent (1e2
\* is 100.00, 1e26 has 29 digits at two places), and not a number.
MaxCpcStrings ==
  { <<>>, <<"5">>, <<"0">>, <<"0", ".", "0", "0", "4">>,
    <<"1", ".", "0", "0", "5">>, <<"1", ".", "0", "1", "5">>,
    <<"1", "e", "2">>, <<"1", "e", "2", "6">>, <<"a", "b", "c">> }

\* Constructor arguments of SearchTermTransformer.
Args(clicks, conversions, tokens, accounts, labels, landing_pages, max_cpcs) ==
  [ clicks_threshold : clicks, conversions_threshold : conversions,
    search_term_tokens_threshold : tokens, sa_account_name : accounts,
    sa_label : labels, keyword_landing_page : landing_pages,
    keyword_max_cpc : max_cpcs ]

\* The inputs explored are families, each exhaustive in the inputs one
\* part of the transform reads and fixed in the others.
\*
\* Qualification: every combination of clicks and conversions thresholds with
\* every combination of conversions, clicks and ctr below, at and above them,
\* on reports of at most MaxUnitRows rows.
QualificationArgs ==
  Args({DEFAULT_CLICKS_THRESHOLD, 4}, {DEFAULT_CONVERSIONS_THRESHOLD, 1},
       {DEFAULT_SEARCH_TERM_TOKENS_THRESHOLD}, {"Google"},
       {DEFAULT_SA360_LABEL}, {""}, {<<>>})

QualificationRows ==
  SearchTermRow({ThreeTokens}, {0, 1, 2}, {4, 5, 6}, {0, 5, 10},
                AdGroupNames, {"camp1"})

\* Tokens: token thresholds 0, 1 and 3 with search terms of 0 to 4 tokens.
TokenArgs ==
  Args({DEFAULT_CLICKS_THRESHOLD}, {DEFAULT_CONVERSIONS_THRESHOLD},
       {0, 1, DEFAULT_SEARCH_TERM_TOKENS_THRESHOLD}, {"Google"},
       {DEFAULT_SA360_LABEL}, {""}, {<<>>})

TokenRows ==
  SearchTermRow({NoToken, OneToken, TwoTokens, ThreeTokens, FourTokens},
                {0, 1}, {6}, {5}, {"ag1"}, {"camp1"})

\* Bulksheet: every combination of the optional settings, and another account
\* and label, on reports whose rows differ in campaign, ad group and keyword
\* and of which some qualify and some do not.
BulksheetArgs ==
  Args({DEFAULT_CLICKS_THRESHOLD}, {DEFAULT_CONVERSIONS_THRESHOLD},
       {DEFAULT_SEARCH_TERM_TOKENS_THRESHOLD}, {"Google"},
       {DEFAULT_SA360_LABEL}, {"", "www.google.com/saka"}, MaxCpcStrings)
  \cup
  Args({DEFAULT_CLICKS_THRESHOLD}, {DEFAULT_CONVERSIONS_THRESHOLD},
       {DEFAULT_SEARCH_TERM_TOKENS_THRESHOLD}, {"Acme"}, {"SA_new"},
       {"www.google.com/saka"}, {<<"5">>})

BulksheetRows ==
  SearchTermRow({ThreeTokens, FourTokens}, {0}, {6}, {5}, AdGroupNames,
                CampaignNames)

\* Passthrough: rows that agree in every field the transform reads and differ
\* in status, campaign_id and keyword_text.
PassthroughRows ==
  [ search_term : {ThreeTokens}, status : {"NONE", "UNKNOWN"},
    conversions : {0}, clicks : {6}, ad_group_name : {"ag1"},
    campaign_id : {"12345", "67890"}, campaign_name : {"camp1"}, ctr : {10},
    keyword_text : {"", "shoes"} ]

\* Baseline: ad-group reports of up to MaxBaselineAdGroups rows that repeat a
\* name with another ctr, or name an ad group that differs in case, under
\* search-term rows of ad group "ag1" with a ctr between the two.
MaxBaselineAdGroups == 2

BaselineAdGroupRows == [ ad_group_name : {"ag1", "AG1"}, ctr : {1, 10} ]

BaselineRows ==
  SearchTermRow({ThreeTokens}, {0}, {6}, {5}, {"ag1"}, {"camp1"})

\* ------------------------------------------------------------ settings
\* The settings are named by the names of the Cloud Function's environment
\* variables, the secrets by their names in Secret Manager (constants.py).
\* The default account name.  main.py reads constants.DEFAULT_SA360_ACCOUNT_NAME;
\* the constants.py at hand defines no such name, and the value is the one the
\* specification gives.
DEFAULT_SA360_ACCOUNT_NAME == "Google"

\* A str as the sequence of its characters, for the values strip() and the
\* parsers take apart, and back: Join is the str of a sequence of characters,
\* Chars the characters of one of the default strs.
RECURSIVE Join(_)
Join(chars) == IF chars = <<>> THEN "" ELSE chars[1] \o Join(Tail(chars))

Chars(text) ==
  CHOOSE c \in { <<>>, <<"G", "o", "o", "g", "l", "e">>,
                 <<"S", "A", "_", "a", "d", "d">> } : Join(c) = text

\* str.strip(): without leading and trailing whitespace.
RECURSIVE Strip(_)
Strip(s) ==
  IF s # <<>> /\ IsSpace(Head(s)) THEN Strip(Tail(s))
  ELSE IF s # <<>> /\ IsSpace(s[Len(s)]) THEN Strip(SubSeq(s, 1, Len(s) - 1))
  ELSE s

\* Python values of a settings dict: a str (its characters), an int, or a
\* float (the floats explored are whole numbers).
PyStr(chars) == [ type |-> "str", value |-> chars ]
PyInt(n) == [ type |-> "int", value |-> n ]
PyFloat(n) == [ type |-> "float", value |-> n ]

\* float() takes the str "nan", in whitespace or not, for the float NaN.
IsNanString(s) == Strip(s) = <<"n", "a", "n">>

\* float(x) raises ValueError on a str that, stripped of whitespace, is
\* neither a number nor "nan"; an int converts.
FloatRaises(x) ==
  x.type = "str" /\ ~IsDecimalString(Strip(x.value)) /\ ~IsNanString(x.value)

\* float(x): NaN, the number a str spells (whole, for the strings explored),
\* or the int itself.
Float(x) ==
  IF x.type = "str"
    THEN IF IsNanString(x.value) THEN NaN
         ELSE LET d == Decimal(Strip(x.value))
              IN IF d.places <= 0 THEN d.coeff * Pow10(0 - d.places)
                 ELSE d.coeff \div Pow10(d.places)
    ELSE x.value

\* main._REQUIRED_STR_SETTINGS, _REQUIRED_NUMERIC_SETTINGS and
\* _OPTIONAL_SETTINGS: the names in the order the dicts list them, and the
\* defaults.
RequiredStrNames ==
  << "GCP_PROJECT_ID", "CUSTOMER_ID", "SA360_SFTP_USERNAME", "SA360_ACCOUNT_NAME",
     "SA360_LABEL" >>

RequiredNumericNames ==
  << "CLICKS_THRESHOLD", "CONVERSIONS_THRESHOLD", "SEARCH_TERMS_TOKENS_THRESHOLD" >>

OptionalNames == << "CAMPAIGN_IDS", "KEYWORD_LANDING_PAGE", "KEYWORD_MAX_CPC" >>

REQUIRED_STR_SETTINGS ==
  [ n \in Range(RequiredStrNames) |->
      IF n = "SA360_ACCOUNT_NAME" THEN PyStr(Chars(DEFAULT_SA360_ACCOUNT_NAME))
      ELSE IF n = "SA360_LABEL" THEN PyStr(Chars(DEFAULT_SA360_LABEL))
      ELSE PyStr(Chars("")) ]

\* _REQUIRED_NUMERIC_SETTINGS with the defaults of the clicks and the tokens
\* thresholds exchanged.
REQUIRED_NUMERIC_SETTINGS_Exchanged ==
  [ n \in Range(RequiredNumericNames) |->
      IF n = "CLICKS_THRESHOLD" THEN PyInt(DEFAULT_SEARCH_TERM_TOKENS_THRESHOLD)
      ELSE IF n = "CONVERSIONS_THRESHOLD"
        THEN PyInt(DEFAULT_CONVERSIONS_THRESHOLD)
      ELSE PyInt(DEFAULT_CLICKS_THRESHOLD) ]

REQUIRED_NUMERIC_SETTINGS ==
  [ n \in Range(RequiredNumericNames) |->
      IF n = "CLICKS_THRESHOLD" THEN PyInt(DEFAULT_CLICKS_THRESHOLD)
      ELSE IF n = "CONVERSIONS_THRESHOLD"
        THEN PyInt(DEFAULT_CONVERSIONS_THRESHOLD)
      ELSE PyInt(DEFAULT_SEARCH_TERM_TOKENS_THRESHOLD) ]

SettingNames ==
  Range(RequiredStrNames) \cup Range(RequiredNumericNames)
    \cup Range(OptionalNames)

\* os.environ.get(name, default) on an environment env (a dict of strs).
EnvironGet(env, name, default) ==
  IF name \in DOMAIN env THEN PyStr(env[name]) ELSE default

\* ------------------------------------------------------------ state
VARIABLES
  pc,                 \* where the program is: "init", "constructed", "loop",
                      \* "returned", or "raised" (an exception left __init__)
  args,               \* the arguments given to SearchTermTransformer(...)
  self,               \* the transformer's fields, None before __init__
  search_results_df,  \* the search-term report given to the transform
  ad_groups,          \* the ad-group report given to the transform
  bulksheet_columns,  \* local: the column list of the result
  optional_columns,   \* local: dict of the optional columns' values
  rows,               \* local: list of the row dicts appended so far
  i,                  \* number of report rows iterrows() has yielded
  origin,             \* history: origin[p] is the report row during whose
                      \* iteration rows[p] was appended
  result,             \* the DataFrame returned, None before the return
  sa_360_bulksheet_columns,
                      \* the list object constants.SA_360_BULKSHEET_COLUMNS,
                      \* which every transform of the process reads
  sftp,               \* the SA360 SFTP server: its files, the files open
                      \* for a client, and the history of the uploads
  calls,              \* history: for each transform call, the transformer
                      \* and the reports it began with and the table it
                      \* returned
  mpc,                \* where extract_and_upload_keywords is, "none" when
                      \* the transformer or the client runs on its own
  environ,            \* os.environ: the variables that are set
  secrets,            \* Secret Manager: the payload of each secret
  service,            \* the Google Ads service: whether loading the client
                      \* fails, and the result stream of each report
  settings,           \* local of main: the settings dict
  locals,             \* locals of main: the credentials, the two reports
                      \* and the SFTP password
  gads,               \* the GoogleAdsClient and the call in progress
  sent,               \* history: the requests given to search_stream
  uploads,            \* history: the bulksheets given to
                      \* upload_keywords_to_sa360
  retrieved,          \* history: the names of the secrets retrieved
  outcome             \* what extract_and_upload_keywords returned or raised

transformervars ==
  << pc, args, self, search_results_df, ad_groups, bulksheet_columns,
     optional_columns, rows, i, origin, result, sa_360_bulksheet_columns,
     calls >>

clientvars == << service, gads, sent >>

mainvars ==
  << mpc, environ, secrets, settings, locals, uploads, retrieved, outcome,
     sftp >>

vars == << transformervars, clientvars, mainvars >>

\* A table that has not been made yet.
NoFrame == [ columns |-> <<>>, data |-> <<>> ]

\* An Optional[str]: None, or the characters of a str.
NoneStr == [ is_none |-> TRUE, chars |-> <<>> ]

SomeStr(chars) == [ is_none |-> FALSE, chars |-> chars ]

\* A result stream of the service: its batches of rows, and whether and
\* when it raises GoogleAdsException: "open" when search_stream is called,
\* "read" when the batch after the first `after` batches is fetched.
Stream(batches, fails, after) ==
  [ batches |-> batches, fails |-> fails, after |-> after ]

\* No GoogleAdsClient exists.
NoClient ==
  [ pc |-> "none", method |-> "", customer_id |-> <<>>,
    campaign_ids |-> NoneStr, request_built |-> FALSE,
    search_request |-> [ customer_id |-> <<>>, query |-> "" ],
    results |-> <<>>, read |-> 0, returned |-> NoFrame ]

NoLocals ==
  [ google_ads_api_credentials |-> <<>>, search_terms_df |-> NoFrame,
    ad_groups_df |-> NoFrame, sa_360_sftp_password |-> <<>> ]

NoOutcome == [ kind |-> "none", value |-> "" ]

\* An SFTP server without files, on which nothing was uploaded.
NoSftp == [ files |-> << >>, open |-> {}, log |-> <<>> ]

\* The transformer is used on its own: no orchestrator, no client.
MainIdle ==
  /\ mpc = "none"
  /\ environ = EmptyDict
  /\ secrets = EmptyDict
  /\ service = EmptyDict
  /\ settings = EmptyDict
  /\ locals = NoLocals
  /\ gads = NoClient
  /\ sent = <<>>
  /\ uploads = <<>>
  /\ sftp = NoSftp
  /\ retrieved = <<>>
  /\ outcome = NoOutcome

Init ==
  /\ pc = "init"
  /\ \/ /\ args \in QualificationArgs
        /\ search_results_df \in SeqsUpTo(QualificationRows, MaxUnitRows)
        /\ ad_groups \in SeqsUpTo(AdGroupRows, MaxAdGroups)
     \/ /\ args \in TokenArgs
        /\ search_results_df \in SeqsUpTo(TokenRows, MaxRows)
        /\ ad_groups \in SeqsUpTo(AdGroupRows, MaxAdGroups)
     \/ /\ args \in BulksheetArgs
        /\ search_results_df \in SeqsUpTo(BulksheetRows, MaxRows)
        /\ ad_groups \in SeqsUpTo(AdGroupRows, MaxAdGroups)
     \/ /\ args \in TokenArgs
        /\ search_results_df \in SeqsUpTo(PassthroughRows, MaxRows)
        /\ ad_groups \in SeqsUpTo(AdGroupRows, MaxAdGroups)
     \/ /\ args \in QualificationArgs
        /\ search_results_df \in SeqsUpTo(BaselineRows, MaxUnitRows)
        /\ ad_groups \in SeqsUpTo(BaselineAdGroupRows, MaxBaselineAdGroups)
  /\ self = None
  /\ bulksheet_columns = <<>>
  /\ optional_columns = EmptyDict
  /\ rows = <<>>
  /\ i = 0
  /\ origin = <<>>
  /\ result = None
  /\ sa_360_bulksheet_columns = SA_360_BULKSHEET_COLUMNS
  /\ calls = <<>>
  /\ MainIdle

\* ------------------------------------------------------------ __init__
\* SearchTermTransformer.__init__: stores its arguments; a non-empty
\* keyword_max_cpc is parsed and rounded.  decimal.Decimal raises
\* InvalidOperation on a string that is no number, and round raises it on a
\* number too long for the context's precision; __init__ catches neither.
\* ConstructRaises were every keyword_max_cpc that is set rejected.
ConstructRaises_WhenSet(keyword_max_cpc) == keyword_max_cpc # <<>>

ConstructRaises(keyword_max_cpc) ==
  /\ keyword_max_cpc # <<>>
  /\ \/ ~IsDecimalString(keyword_max_cpc)
     \/ Round2Raises(Decimal(keyword_max_cpc))

KeywordMaxCpcField(keyword_max_cpc) ==
  IF keyword_max_cpc # <<>>
    THEN SomeDecimal(Round2(Decimal(keyword_max_cpc)))
    ELSE NoneDecimal

Construct ==
  /\ pc = "init"
  /\ IF ConstructRaises(args.keyword_max_cpc)
       THEN /\ pc' = "raised"
            /\ self' = self
       ELSE /\ pc' = "constructed"
            /\ self' =
                 [ _clicks_threshold |-> args.clicks_threshold,
                   _conversions_threshold |-> args.conversions_threshold,
                   _search_term_tokens_threshold |->
                     args.search_term_tokens_threshold,
                   _sa_account_name |-> args.sa_account_name,
                   _sa_label |-> args.sa_label,
                   _keyword_landing_page |-> args.keyword_landing_page,
                   _keyword_max_cpc |->
                     KeywordMaxCpcField(args.keyword_max_cpc) ]
  /\ UNCHANGED << args, search_results_df, ad_groups, bulksheet_columns,
                  optional_columns, rows, i, origin, result,
                  sa_360_bulksheet_columns, calls >>
  /\ UNCHANGED << clientvars, mainvars >>

\* ------------------------------------------------------------ transform
\* Lines 76-88: the column list and the optional values are fixed before the
\* loop starts.  The column list is a copy of the list of constants.py, and
\* the appends of lines 81 and 86 go to the copy, or to the list of
\* constants.py were the copy that list itself.
WithLandingPage(s, cols) ==
  IF StrTruthy(s._keyword_landing_page)
    THEN Append(cols, SA_360_COLUMN_KEYWORD_LANDING_PAGE)
    ELSE cols

WithMaxCpc(s, cols) ==
  IF DecimalTruthy(s._keyword_max_cpc)
    THEN Append(cols, SA_360_COLUMN_KEYWORD_MAX_CPC)
    ELSE cols

BulksheetColumns(s, cols) == WithMaxCpc(s, WithLandingPage(s, cols))

\* list.copy() that hands back the list itself.
ListCopy_SameObject(list) == [ same_object |-> TRUE, items |-> list ]

\* list.copy(): a new list object with the same items.
ListCopy(list) == [ same_object |-> FALSE, items |-> list ]

\* A transform call as the history keeps it.
Call(s, report, adgs) ==
  [ self |-> s, search_results_df |-> report, ad_groups |-> adgs,
    returned |-> FALSE, result |-> [ columns |-> <<>>, data |-> <<>> ] ]

OptionalColumns(s) ==
  LET lp == IF StrTruthy(s._keyword_landing_page)
              THEN DictUpdate(EmptyDict,
                     [ k \in {SA_360_COLUMN_KEYWORD_LANDING_PAGE} |->
                         s._keyword_landing_page ])
              ELSE EmptyDict
  IN IF DecimalTruthy(s._keyword_max_cpc)
       THEN DictUpdate(lp,
              [ k \in {SA_360_COLUMN_KEYWORD_MAX_CPC} |->
                  s._keyword_max_cpc.cents ])
       ELSE lp

TransformBegin ==
  /\ pc = "constructed"
  /\ pc' = "loop"
  /\ rows' = <<>>
  /\ LET copy == ListCopy(sa_360_bulksheet_columns)
         appended == BulksheetColumns(self, copy.items)
     IN /\ bulksheet_columns' = appended
        /\ sa_360_bulksheet_columns' =
             IF copy.same_object THEN appended ELSE sa_360_bulksheet_columns
  /\ optional_columns' = OptionalColumns(self)
  /\ i' = 0
  /\ origin' = <<>>
  /\ calls' = Append(calls, Call(self, search_results_df, ad_groups))
  /\ UNCHANGED << args, self, search_results_df, ad_groups, result >>
  /\ UNCHANGED << clientvars, mainvars >>

\* AdGroupCtr taking the last row of the name.
AdGroupCtr_LastRow(ad_group_name, adgs) ==
  IF ~(\E p \in 1..Len(adgs) : adgs[p].ad_group_name = ad_group_name)
    THEN 0
    ELSE LET last == CHOOSE p \in 1..Len(adgs) :
                       /\ adgs[p].ad_group_name = ad_group_name
                       /\ \A q \in (p + 1)..Len(adgs) :
                            adgs[q].ad_group_name # ad_group_name
         IN adgs[last].ctr

\* AdGroupCtr with a default baseline of 1.0 for an ad group that is not in
\* the report.
AdGroupCtr_DefaultOne(ad_group_name, adgs) ==
  IF ~(\E p \in 1..Len(adgs) : adgs[p].ad_group_name = ad_group_name)
    THEN 10
    ELSE LET first == CHOOSE p \in 1..Len(adgs) :
                        /\ adgs[p].ad_group_name = ad_group_name
                        /\ \A q \in 1..(p - 1) :
                             adgs[q].ad_group_name # ad_group_name
         IN adgs[first].ctr

\* Lines 132-142: the baseline CTR of the row's ad group: 0 when no row of the
\* ad-group report has that name, else the ctr of the first row that has it.
AdGroupCtr(ad_group_name, adgs) ==
  IF ~(\E p \in 1..Len(adgs) : adgs[p].ad_group_name = ad_group_name)
    THEN 0
    ELSE LET first == CHOOSE p \in 1..Len(adgs) :
                        /\ adgs[p].ad_group_name = ad_group_name
                        /\ \A q \in 1..(p - 1) :
                             adgs[q].ad_group_name # ad_group_name
         IN adgs[first].ctr

\* Qualifies with clicks alone enough to qualify.
Qualifies_ClicksAlone(s, search_term_row, ad_group_ctr) ==
  \/ search_term_row.conversions > s._conversions_threshold
  \/ search_term_row.ctr > ad_group_ctr
  \/ search_term_row.clicks > s._clicks_threshold

\* Qualifies with >= in place of > on clicks.
Qualifies_ClicksAtThreshold(s, search_term_row, ad_group_ctr) ==
  \/ search_term_row.conversions > s._conversions_threshold
  \/ /\ search_term_row.ctr > ad_group_ctr
     /\ search_term_row.clicks >= s._clicks_threshold

\* Qualifies with the parentheses misplaced: (conversions or ctr) and clicks.
Qualifies_ClicksRequired(s, search_term_row, ad_group_ctr) ==
  /\ \/ search_term_row.conversions > s._conversions_threshold
     \/ search_term_row.ctr > ad_group_ctr
  /\ search_term_row.clicks > s._clicks_threshold

\* Lines 144-146: the qualification test.
Qualifies(s, search_term_row, ad_group_ctr) ==
  \/ search_term_row.conversions > s._conversions_threshold
  \/ /\ search_term_row.ctr > ad_group_ctr
     /\ search_term_row.clicks > s._clicks_threshold

\* MatchTypesByTokens returning broad and exact for a long search term.
MatchTypesByTokens_BroadAndExact(s, search_term) ==
  LET search_term_tokens == Split(search_term)
  IN IF Len(search_term_tokens) > s._search_term_tokens_threshold
       THEN << MATCH_TYPE_BROAD, MATCH_TYPE_EXACT >>
       ELSE << MATCH_TYPE_EXACT, MATCH_TYPE_PHRASE >>

\* MatchTypesByTokens with >= in place of >.
MatchTypesByTokens_AtThreshold(s, search_term) ==
  LET search_term_tokens == Split(search_term)
  IN IF Len(search_term_tokens) >= s._search_term_tokens_threshold
       THEN << MATCH_TYPE_BROAD, "" >>
       ELSE << MATCH_TYPE_EXACT, MATCH_TYPE_PHRASE >>

\* MatchTypesByTokens returning phrase before exact.
MatchTypesByTokens_PhraseFirst(s, search_term) ==
  LET search_term_tokens == Split(search_term)
  IN IF Len(search_term_tokens) > s._search_term_tokens_threshold
       THEN << MATCH_TYPE_BROAD, "" >>
       ELSE << MATCH_TYPE_PHRASE, MATCH_TYPE_EXACT >>

\* Lines 147-151: the match types of a qualifying search term.
MatchTypesByTokens(s, search_term) ==
  LET search_term_tokens == Split(search_term)
  IN IF Len(search_term_tokens) > s._search_term_tokens_threshold
       THEN << MATCH_TYPE_BROAD, "" >>
       ELSE << MATCH_TYPE_EXACT, MATCH_TYPE_PHRASE >>

\* GetMatchType qualifying no row of status UNKNOWN.
GetMatchType_StatusNone(s, search_term_row, adgs) ==
  LET ad_group_ctr == AdGroupCtr(search_term_row.ad_group_name, adgs)
  IN IF /\ Qualifies(s, search_term_row, ad_group_ctr)
        /\ search_term_row.status = "NONE"
       THEN MatchTypesByTokens(s, search_term_row.search_term)
       ELSE << "", "" >>

\* SearchTermTransformer._get_match_type.
GetMatchType(s, search_term_row, adgs) ==
  LET ad_group_ctr == AdGroupCtr(search_term_row.ad_group_name, adgs)
  IN IF Qualifies(s, search_term_row, ad_group_ctr)
       THEN MatchTypesByTokens(s, search_term_row.search_term)
       ELSE << "", "" >>

\* RowToAppend leaving the label off the phrase rows.
RowToAppend_NoLabelOnPhrase(s, search_term_row, match_type, optional) ==
  DictUpdate(
    [ k \in Range(SA_360_BULKSHEET_COLUMNS) |->
        CASE k = SA_360_COLUMN_ROW_TYPE -> "keyword"
          [] k = SA_360_COLUMN_ACTION -> "create"
          [] k = SA_360_COLUMN_ACCOUNT -> s._sa_account_name
          [] k = SA_360_COLUMN_CAMPAIGN -> search_term_row.campaign_name
          [] k = SA_360_COLUMN_AD_GROUP -> search_term_row.ad_group_name
          [] k = SA_360_COLUMN_KEYWORD -> search_term_row.search_term
          [] k = SA_360_COLUMN_KEYWORD_MATCH_TYPE -> match_type
          [] k = SA_360_COLUMN_LABEL ->
               IF match_type = MATCH_TYPE_PHRASE THEN "" ELSE s._sa_label ],
    optional)

\* RowToAppend with campaign_name and ad_group_name in each other's column.
RowToAppend_Swapped(s, search_term_row, match_type, optional) ==
  DictUpdate(
    [ k \in Range(SA_360_BULKSHEET_COLUMNS) |->
        CASE k = SA_360_COLUMN_ROW_TYPE -> "keyword"
          [] k = SA_360_COLUMN_ACTION -> "create"
          [] k = SA_360_COLUMN_ACCOUNT -> s._sa_account_name
          [] k = SA_360_COLUMN_CAMPAIGN -> search_term_row.ad_group_name
          [] k = SA_360_COLUMN_AD_GROUP -> search_term_row.campaign_name
          [] k = SA_360_COLUMN_KEYWORD -> search_term_row.search_term
          [] k = SA_360_COLUMN_KEYWORD_MATCH_TYPE -> match_type
          [] k = SA_360_COLUMN_LABEL -> s._sa_label ],
    optional)

\* Lines 101-112: the dict appended for one match type.
RowToAppend(s, search_term_row, match_type, optional) ==
  DictUpdate(
    [ k \in Range(SA_360_BULKSHEET_COLUMNS) |->
        CASE k = SA_360_COLUMN_ROW_TYPE -> "keyword"
          [] k = SA_360_COLUMN_ACTION -> "create"
          [] k = SA_360_COLUMN_ACCOUNT -> s._sa_account_name
          [] k = SA_360_COLUMN_CAMPAIGN -> search_term_row.campaign_name
          [] k = SA_360_COLUMN_AD_GROUP -> search_term_row.ad_group_name
          [] k = SA_360_COLUMN_KEYWORD -> search_term_row.search_term
          [] k = SA_360_COLUMN_KEYWORD_MATCH_TYPE -> match_type
          [] k = SA_360_COLUMN_LABEL -> s._sa_label ],
    optional)

\* RowsFor without the checks for an empty match type (lines 94-95, 98-99).
RECURSIVE RowsFor_KeepEmpty(_, _, _, _)
RowsFor_KeepEmpty(s, search_term_row, match_types, optional) ==
  IF match_types = <<>> THEN <<>>
  ELSE << RowToAppend(s, search_term_row, Head(match_types), optional) >>
       \o RowsFor_KeepEmpty(s, search_term_row, Tail(match_types), optional)

\* Lines 94-113: the dicts one report row adds to rows: none when no match
\* type is set, else one per non-empty match type, in tuple order.
RECURSIVE RowsFor(_, _, _, _)
RowsFor(s, search_term_row, match_types, optional) ==
  IF match_types = <<>> THEN <<>>
  ELSE LET rest == RowsFor(s, search_term_row, Tail(match_types), optional)
       IN IF Head(match_types) = ""
            THEN rest
            ELSE << RowToAppend(s, search_term_row, Head(match_types),
                                optional) >> \o rest

\* list.append, once per new element: the new elements go to the end.
Extend(list, new) == list \o new

\* One iteration of the for-loop of lines 90-113.
ProcessRow ==
  /\ pc = "loop"
  /\ i < Len(search_results_df)
  /\ LET search_term_row == search_results_df[i + 1]
         match_types == GetMatchType(self, search_term_row, ad_groups)
         new_rows == RowsFor(self, search_term_row, match_types,
                             optional_columns)
     IN /\ rows' = Extend(rows, new_rows)
        /\ origin' = Extend(origin, [ p \in 1..Len(new_rows) |-> i + 1 ])
  /\ i' = i + 1
  /\ UNCHANGED << pc, args, self, search_results_df, ad_groups,
                  bulksheet_columns, optional_columns, result,
                  sa_360_bulksheet_columns, calls >>
  /\ UNCHANGED << clientvars, mainvars >>

\* pd.DataFrame(list_of_dicts, columns=cols): one record per dict, holding
\* for each listed column the dict's value, NaN where the dict has no such
\* key; keys not listed are dropped.
DataFrame(dicts, cols) ==
  [ columns |-> cols,
    data |-> [ p \in 1..Len(dicts) |->
                 [ c \in Range(cols) |->
                     IF c \in DOMAIN dicts[p] THEN dicts[p][c] ELSE NaN ] ] ]

\* Line 115, reached when iterrows() is exhausted.
Return ==
  /\ pc = "loop"
  /\ i = Len(search_results_df)
  /\ pc' = "returned"
  /\ result' = DataFrame(rows, bulksheet_columns)
  /\ calls' = [ calls EXCEPT ![Len(calls)].returned = TRUE,
                             ![Len(calls)].result =
                               DataFrame(rows, bulksheet_columns) ]
  /\ UNCHANGED << args, self, search_results_df, ad_groups, bulksheet_columns,
                  optional_columns, rows, i, origin, sa_360_bulksheet_columns >>
  /\ UNCHANGED << clientvars, mainvars >>

Next == Construct \/ TransformBegin \/ ProcessRow \/ Return

Spec == Init /\ [][Next]_vars

\* ------------------------------------------------------------ GoogleAdsClient
CUSTOMER_ID_LENGTH == 10

SEARCH_REPORT_COLUMNS ==
  << "search_term", "status", "conversions", "clicks", "ad_group_name",
     "campaign_id", "campaign_name", "ctr", "keyword_text" >>

AD_GROUP_COLUMNS == << "ad_group_name", "ctr" >>

\* The two queries, with their whitespace reduced to single blanks.
SEARCH_REPORT_QUERY ==
  "SELECT search_term_view.search_term, search_term_view.status, "
    \o "metrics.conversions, metrics.clicks, ad_group.name, campaign.id, "
    \o "campaign.name, metrics.ctr, segments.keyword.info.text "
    \o "FROM search_term_view "
    \o "WHERE segments.date DURING LAST_30_DAYS "
    \o "AND search_term_view.status IN ('NONE', 'UNKNOWN')"

AD_GROUP_QUERY ==
  "SELECT ad_group.name, metrics.ctr FROM ad_group "
    \o "WHERE segments.date DURING LAST_30_DAYS"

Methods == {"get_search_terms", "get_ad_groups"}

\* What each method asks for, reads and returns.
QueryOf(method) ==
  IF method = "get_search_terms" THEN SEARCH_REPORT_QUERY ELSE AD_GROUP_QUERY

ColumnsOf(method) ==
  IF method = "get_search_terms" THEN SEARCH_REPORT_COLUMNS ELSE AD_GROUP_COLUMNS

StreamOf(svc, method) ==
  IF method = "get_search_terms" THEN svc.search_terms ELSE svc.ad_groups

\* The characters str.isdigit() takes for digits: the decimal digits and,
\* among the characters explored, the superscript two.
IsDigitChar(ch) == IsDigit(ch) \/ ch = "²"

\* str.isdigit(): at least one character, and every character a digit.
IsDigitStr(s) == s # <<>> /\ \A p \in 1..Len(s) : IsDigitChar(s[p])

\* CustomerIdInvalid without the isdigit() test.
CustomerIdInvalid_LengthOnly(customer_id) ==
  Len(customer_id) # CUSTOMER_ID_LENGTH

\* _validate_customer_id raises SAGoogleAdsClientError.
CustomerIdInvalid(customer_id) ==
  Len(customer_id) # CUSTOMER_ID_LENGTH \/ ~IsDigitStr(customer_id)

\* Truth value of an Optional[str] as `if s:` tests it.
OptStrTruthy(s) == ~s.is_none /\ s.chars # <<>>

\* BuildSearchRequest without the test of line 243.
BuildSearchRequest_AlwaysRestricted(query, customer_id, campaign_ids) ==
  [ customer_id |-> customer_id,
    query |-> query \o " AND campaign.id IN (" \o Join(campaign_ids.chars)
                \o ")" ]

\* _build_search_request: the query, with the campaign restriction appended
\* when campaign_ids is given, and the customer id.
BuildSearchRequest(query, customer_id, campaign_ids) ==
  [ customer_id |-> customer_id,
    query |-> IF OptStrTruthy(campaign_ids)
                THEN query \o " AND campaign.id IN ("
                       \o Join(campaign_ids.chars) \o ")"
                ELSE query ]

\* The dict made of one row of a result stream (float() of a number of the
\* service is that number).
ResultOf(method, row) ==
  IF method = "get_search_terms"
    THEN [ search_term |-> row.search_term_view.search_term,
           status |-> row.search_term_view.status,
           conversions |-> row.metrics.conversions,
           clicks |-> row.metrics.clicks,
           ad_group_name |-> row.ad_group.name,
           campaign_id |-> row.campaign.id,
           campaign_name |-> row.campaign.name,
           ctr |-> row.metrics.ctr,
           keyword_text |-> row.segments.keyword.info.text ]
    ELSE [ ad_group_name |-> row.ad_group.name,
           ctr |-> row.metrics.ctr ]

\* ResultsOf with the rows of the batch taken last to first.
ResultsOf_Reversed(method, batch) ==
  [ p \in 1..Len(batch) |-> ResultOf(method, batch[Len(batch) + 1 - p]) ]

\* The dicts of the rows of one batch, in order.
ResultsOf(method, batch) ==
  [ p \in 1..Len(batch) |-> ResultOf(method, batch[p]) ]

\* GoogleAdsClient.__init__: load_from_dict raises GoogleAdsException, which
\* leaves as SAGoogleAdsClientError, or the client is ready.
GadsConstruct ==
  /\ gads.pc = "new"
  /\ gads' = [ gads EXCEPT !.pc = IF service.load_fails THEN "raised"
                                  ELSE "ready" ]
  /\ UNCHANGED << service, sent, transformervars, mainvars >>

\* A call of get_search_terms or get_ad_groups on a client that is ready or
\* has returned from a call.
GadsCall(method, customer_id, campaign_ids) ==
  /\ gads.pc \in {"ready", "returned"}
  /\ gads' = [ gads EXCEPT !.pc = "called", !.method = method,
                           !.customer_id = customer_id,
                           !.campaign_ids = campaign_ids,
                           !.request_built = FALSE,
                           !.results = <<>>, !.read = 0,
                           !.returned = NoFrame ]

\* The method up to the call of search_stream: the customer id is validated,
\* the request is built and given to search_stream, which opens the stream or
\* raises GoogleAdsException.
GadsBegin ==
  /\ gads.pc = "called"
  /\ IF CustomerIdInvalid(gads.customer_id)
       THEN /\ gads' = [ gads EXCEPT !.pc = "raised" ]
            /\ sent' = sent
       ELSE LET search_request ==
                  BuildSearchRequest(QueryOf(gads.method), gads.customer_id,
                                     gads.campaign_ids)
                stream == StreamOf(service, gads.method)
            IN /\ sent' = Append(sent, search_request)
               /\ gads' = [ gads EXCEPT
                              !.request_built = TRUE,
                              !.search_request = search_request,
                              !.pc = IF stream.fails = "open" THEN "raised"
                                     ELSE "streaming" ]
  /\ UNCHANGED << service, transformervars, mainvars >>

\* StreamFailsAt for a stream that can fail only on its first fetch.
StreamFailsAt_FirstFetchOnly(stream, read) ==
  stream.fails = "read" /\ stream.after = read /\ read = 0

\* The stream raises GoogleAdsException on the fetch of its next batch.
StreamFailsAt(stream, read) == stream.fails = "read" /\ stream.after = read

\* One iteration of `for batch in stream`: the stream raises, and the rows
\* read so far are lost with the frame of the method, or the dicts of the
\* batch's rows are appended to results.
GadsReadBatch ==
  /\ gads.pc = "streaming"
  /\ LET stream == StreamOf(service, gads.method)
     IN IF StreamFailsAt(stream, gads.read)
          THEN gads' = [ gads EXCEPT !.pc = "raised" ]
          ELSE /\ gads.read < Len(stream.batches)
               /\ gads' = [ gads EXCEPT
                              !.results =
                                Extend(gads.results,
                                       ResultsOf(gads.method,
                                                 stream.batches[gads.read + 1])),
                              !.read = gads.read + 1 ]
  /\ UNCHANGED << service, sent, transformervars, mainvars >>

\* The stream is exhausted: the method returns the table of its results.
GadsReturn ==
  /\ gads.pc = "streaming"
  /\ LET stream == StreamOf(service, gads.method)
     IN /\ ~StreamFailsAt(stream, gads.read)
        /\ gads.read = Len(stream.batches)
  /\ gads' = [ gads EXCEPT
                 !.pc = "returned",
                 !.returned = DataFrame(gads.results, ColumnsOf(gads.method)) ]
  /\ UNCHANGED << service, sent, transformervars, mainvars >>


\* ------------------------------------------------------------ client inputs
\* Longest result stream explored, in batches.
MaxBatches == 2

\* One row of the search-term stream, as the service nests it.
ApiSearchTermRow(term, conversions, clicks, ctr, name) ==
  [ search_term_view |-> [ search_term |-> term, status |-> "NONE" ],
    metrics |-> [ conversions |-> conversions, clicks |-> clicks, ctr |-> ctr ],
    ad_group |-> [ name |-> name ],
    campaign |-> [ id |-> "12345", name |-> "camp1" ],
    segments |-> [ keyword |-> [ info |-> [ text |-> "" ] ] ] ]

\* A search term that qualifies under every threshold explored, and one that
\* qualifies under none.
QualifyingApiRow == ApiSearchTermRow(ThreeTokens, 2, 6, 10, "ag1")
OtherApiRow == ApiSearchTermRow(FourTokens, 0, 1, 1, "ag1")

\* Batches of the search-term stream: of one row, and of two.
SearchTermBatches ==
  { <<QualifyingApiRow>>, <<OtherApiRow>>, <<OtherApiRow, QualifyingApiRow>> }

\* One row of the ad-group stream, as the service nests it.
ApiAdGroupRow(name, ctr) ==
  [ ad_group |-> [ name |-> name ], metrics |-> [ ctr |-> ctr ] ]

\* Batches of the ad-group stream: of one row, and of two.
AdGroupBatches ==
  { << ApiAdGroupRow("ag1", 5) >>,
    << ApiAdGroupRow("ag2", 1), ApiAdGroupRow("ag1", 5) >> }

\* Every stream of at most MaxBatches of the given batches that never fails,
\* fails when opened, or fails after any number of its batches.
Streams(batches) ==
  { Stream(b, f, a) :
      <<b, f, a>> \in
        { t \in SeqsUpTo(batches, MaxBatches) \X {"never", "open", "read"}
                  \X (0..MaxBatches) :
            IF t[2] = "read" THEN t[3] <= Len(t[1]) ELSE t[3] = 0 } }

Service(load_fails, search_term_stream, ad_group_stream) ==
  [ load_fails |-> load_fails, search_terms |-> search_term_stream,
    ad_groups |-> ad_group_stream ]

\* Both streams deliver their rows: the two search terms in a batch each,
\* and the ad group.
GoodService ==
  Service(FALSE, Stream(<< <<QualifyingApiRow>>, <<OtherApiRow>> >>, "never", 0),
          Stream(<< << ApiAdGroupRow("ag1", 5) >> >>, "never", 0))

\* The service's behaviours explored: loading the client fails, or one of the
\* two streams is any of Streams and the other is good.
ServiceScenarios ==
  { [ GoodService EXCEPT !.load_fails = TRUE ] }
    \cup { [ GoodService EXCEPT !.search_terms = st ] :
             st \in Streams(SearchTermBatches) }
    \cup { [ GoodService EXCEPT !.ad_groups = ag ] :
             ag \in Streams(AdGroupBatches) }

\* Customer ids: valid, too short, too long, ten characters of which some are
\* no digits, ten characters of which one is a digit that is not decimal, and
\* empty.
ValidCustomerId == <<"1", "2", "3", "4", "5", "6", "7", "8", "9", "0">>

CustomerIds ==
  { ValidCustomerId,
    <<"1", "2", "3", "4", "5">>,
    <<"1", "2", "3", "4", "5", "6", "7", "8", "9", "1", "0">>,
    <<"a", "b", "c", "1", "2", "3", "4", "5", "6", "7">>,
    <<" ", "1", "2", "3", "4", "5", "6", "7", "8", "9">>,
    <<"1", "2", "3", "4", "5", "6", "7", "8", "9", "²">>,
    <<>> }

\* campaign_ids arguments: absent (None), empty, one id, two ids, a blank.
CampaignIdArgs ==
  { NoneStr, SomeStr(<<>>), SomeStr(<<"1">>), SomeStr(<<"1", ",", "2">>),
    SomeStr(<<" ">>) }

\* ------------------------------------------------------------ client alone
\* No transformer exists.
NoArgs ==
  [ clicks_threshold |-> 0, conversions_threshold |-> 0,
    search_term_tokens_threshold |-> 0, sa_account_name |-> "",
    sa_label |-> "", keyword_landing_page |-> "", keyword_max_cpc |-> <<>> ]

TransformerIdle ==
  /\ pc = "none"
  /\ args = NoArgs
  /\ self = None
  /\ search_results_df = <<>>
  /\ ad_groups = <<>>
  /\ bulksheet_columns = <<>>
  /\ optional_columns = EmptyDict
  /\ rows = <<>>
  /\ i = 0
  /\ origin = <<>>
  /\ result = None
  /\ sa_360_bulksheet_columns = SA_360_BULKSHEET_COLUMNS
  /\ calls = <<>>

\* A GoogleAdsClient is constructed and one of its two methods is called once,
\* with any of the arguments explored.
AdsInit ==
  /\ TransformerIdle
  /\ mpc = "none"
  /\ environ = EmptyDict
  /\ secrets = EmptyDict
  /\ settings = EmptyDict
  /\ locals = NoLocals
  /\ uploads = <<>>
  /\ sftp = NoSftp
  /\ retrieved = <<>>
  /\ outcome = NoOutcome
  /\ service \in ServiceScenarios
  /\ gads = [ NoClient EXCEPT !.pc = "new" ]
  /\ sent = <<>>

DirectCall ==
  /\ mpc = "none"
  /\ gads.pc = "ready"
  /\ \E method \in Methods, customer_id \in CustomerIds,
        campaign_ids \in CampaignIdArgs :
       GadsCall(method, customer_id, campaign_ids)
  /\ UNCHANGED << service, sent, transformervars, mainvars >>

AdsNext ==
  GadsConstruct \/ DirectCall \/ GadsBegin \/ GadsReadBatch \/ GadsReturn

AdsSpec == AdsInit /\ [][AdsNext]_vars

\* ------------------------------------------------------------ sa360_client.py
\* date.strftime("%b_%d_%Y"): the month's abbreviated name, the day of the
\* month in two digits and the year.
MonthAbbr ==
  << "Jan", "Feb", "Mar", "Apr", "May", "Jun", "Jul", "Aug", "Sep", "Oct",
     "Nov", "Dec" >>

Strftime(date) ==
  MonthAbbr[date.month] \o "_"
    \o (IF date.day < 10 THEN "0" ELSE "") \o ToString(date.day) \o "_"
    \o ToString(date.year)

\* Lines 61-62.
BulksheetFilename(today) == "saka_bulkfile_" \o Strftime(today) \o ".csv"

\* DataFrame.to_csv(file, index=False): the line of the column names, then a
\* line per row with the row's values in column order.
ToCsv(df) ==
  << df.columns >>
    \o [ p \in 1..Len(df.data) |->
           [ c \in 1..Len(df.columns) |-> df.data[p][df.columns[c]] ] ]

\* What the server does to an upload: nothing, or an exception from connect,
\* from the opening of the remote file, or from the write after some lines.
SftpFailure(at, after) == [ at |-> at, after |-> after ]

\* SftpOpenW were the file opened for appending.
SftpOpenW_Appending(files, filename) ==
  [ n \in (DOMAIN files) \cup {filename} |->
      IF n \in DOMAIN files THEN files[n] ELSE <<>> ]

\* sftp_client.open(filename, 'w'): the file is created, or truncated when it
\* exists.
SftpOpenW(files, filename) ==
  [ n \in (DOMAIN files) \cup {filename} |->
      IF n = filename THEN <<>> ELSE files[n] ]

\* WithExit closing the file only when the block ends without an exception.
WithExit_NoException(open, filename, raised) ==
  IF raised THEN open ELSE open \ {filename}

\* The end of the with block of lines 63-66, by its last statement or by an
\* exception: the remote file is closed.
WithExit(open, filename, raised) == open \ {filename}

\* The entry the history keeps of one upload.
Uploaded(df, today, filename, fails) ==
  [ sa360_bulksheet_df |-> df, today |-> today,
    bulksheet_filename |-> filename, fails |-> fails ]

\* SA360Client.upload_keywords_to_sa360 on the server: the server after the
\* call.  An exception of connect or open_sftp leaves before the file name is
\* made; one of open leaves the files as they are; the write puts the lines
\* of the CSV, or the lines before its exception, into the opened file.
UploadKeywordsToSa360(server, df, today, fails) ==
  IF fails.at = "connect"
    THEN [ server EXCEPT !.log = Append(@, Uploaded(df, today, "", fails)) ]
    ELSE LET bulksheet_filename == BulksheetFilename(today)
             entry == Uploaded(df, today, bulksheet_filename, fails)
             opened == SftpOpenW(server.files, bulksheet_filename)
             csv == ToCsv(df)
             written == IF fails.at = "write"
                          THEN SubSeq(csv, 1, fails.after) ELSE csv
         IN IF fails.at = "open"
              THEN [ server EXCEPT !.log = Append(@, entry) ]
              ELSE [ files |-> [ opened EXCEPT
                                   ![bulksheet_filename] = @ \o written ],
                     open |-> WithExit(server.open \cup {bulksheet_filename},
                                       bulksheet_filename,
                                       fails.at = "write"),
                     log |-> Append(server.log, entry) ]

\* ------------------------------------------------------------ main.py
\* _load_settings: each setting from the environment, or its default.
LoadedSettings(env) ==
  [ n \in SettingNames |->
      IF n \in Range(RequiredStrNames)
        THEN EnvironGet(env, n, REQUIRED_STR_SETTINGS[n])
      ELSE IF n \in Range(RequiredNumericNames)
        THEN EnvironGet(env, n, REQUIRED_NUMERIC_SETTINGS[n])
      ELSE EnvironGet(env, n, PyStr(<<>>)) ]

\* SanitizeStrs testing the setting as loaded, before strip().
RECURSIVE SanitizeStrs_TestUnstripped(_, _)
SanitizeStrs_TestUnstripped(st, k) ==
  IF k > Len(RequiredStrNames)
    THEN [ raised |-> FALSE, settings |-> st ]
    ELSE LET n == RequiredStrNames[k]
         IN IF st[n].value = <<>>
              THEN [ raised |-> TRUE, settings |-> st ]
              ELSE SanitizeStrs_TestUnstripped(
                     [ st EXCEPT ![n] = PyStr(Strip(st[n].value)) ], k + 1)

\* _sanitize_settings, first loop, from the k-th required str setting on: the
\* setting is stripped in place, and ValueError is raised at the first one
\* that is empty once stripped.
RECURSIVE SanitizeStrs(_, _)
SanitizeStrs(st, k) ==
  IF k > Len(RequiredStrNames)
    THEN [ raised |-> FALSE, settings |-> st ]
    ELSE LET n == RequiredStrNames[k]
             str_setting_value == Strip(st[n].value)
         IN IF str_setting_value = <<>>
              THEN [ raised |-> TRUE, settings |-> st ]
              ELSE SanitizeStrs([ st EXCEPT ![n] = PyStr(str_setting_value) ],
                                k + 1)

\* Second loop: each numeric setting becomes its float, and ValueError is
\* raised at the first one float() rejects.
RECURSIVE SanitizeNumerics(_, _)
SanitizeNumerics(st, k) ==
  IF k > Len(RequiredNumericNames)
    THEN [ raised |-> FALSE, settings |-> st ]
    ELSE LET n == RequiredNumericNames[k]
         IN IF FloatRaises(st[n])
              THEN [ raised |-> TRUE, settings |-> st ]
              ELSE SanitizeNumerics([ st EXCEPT ![n] = PyFloat(Float(st[n])) ],
                                    k + 1)

\* Lines 198-203: the campaign ids are stored anew only when, stripped, they
\* end with a comma, and then without that one comma.
SanitizeCampaignIds(st) ==
  LET campaign_ids == Strip(st["CAMPAIGN_IDS"].value)
  IN IF campaign_ids # <<>> /\ campaign_ids[Len(campaign_ids)] = ","
       THEN [ st EXCEPT !["CAMPAIGN_IDS"] =
                PyStr(SubSeq(campaign_ids, 1, Len(campaign_ids) - 1)) ]
       ELSE st

\* _sanitize_settings: whether it raises ValueError, and the settings dict as
\* it leaves it.
SanitizedSettings(st) ==
  LET strs == SanitizeStrs(st, 1)
      numerics == SanitizeNumerics(strs.settings, 1)
  IN IF strs.raised THEN strs
     ELSE IF numerics.raised THEN numerics
     ELSE [ raised |-> FALSE,
            settings |-> SanitizeCampaignIds(numerics.settings) ]

\* _retrieve_secret: the payload of the secret, stripped.
RetrieveSecret(secret_name) == Strip(secrets[secret_name])

\* json.loads raises JSONDecodeError, a ValueError, on a str that is no JSON
\* document; of the payloads explored only "{}" is one.
JsonLoadsRaises(chars) == chars # <<"{", "}">>

\* `return value` and `raise exc` of extract_and_upload_keywords.
Returns(value) ==
  /\ mpc' = "done"
  /\ outcome' = [ kind |-> "return", value |-> value ]

Raises(exc) ==
  /\ mpc' = "raised"
  /\ outcome' = [ kind |-> "raise", value |-> exc ]

\* Line 79.
LoadSettings ==
  /\ mpc = "start"
  /\ settings' = LoadedSettings(environ)
  /\ mpc' = "loaded"
  /\ UNCHANGED << sftp, environ, secrets, retrieved, locals, uploads, outcome, clientvars,
                  transformervars >>

\* Line 80.
SanitizeSettings ==
  /\ mpc = "loaded"
  /\ LET sanitized == SanitizedSettings(settings)
     IN /\ settings' = sanitized.settings
        /\ IF sanitized.raised
             THEN Raises("ValueError")
             ELSE mpc' = "sanitized" /\ outcome' = outcome
  /\ UNCHANGED << sftp, environ, secrets, retrieved, locals, uploads, clientvars,
                  transformervars >>

\* Lines 83-89: the credentials secret is retrieved, and an empty one is an
\* error.
RetrieveCredentials ==
  /\ mpc = "sanitized"
  /\ LET google_ads_api_credentials == RetrieveSecret("google_ads_api_credentials")
     IN IF google_ads_api_credentials = <<>>
          THEN Raises("ValueError") /\ locals' = locals
          ELSE /\ locals' = [ locals EXCEPT !.google_ads_api_credentials =
                                google_ads_api_credentials ]
               /\ mpc' = "credentials"
               /\ outcome' = outcome
  /\ retrieved' = Append(retrieved, "google_ads_api_credentials")
  /\ UNCHANGED << sftp, environ, secrets, settings, uploads, clientvars,
                  transformervars >>

\* Lines 91-94: the credentials are parsed and GoogleAdsClient(...) is called.
NewGoogleAdsClient ==
  /\ mpc = "credentials"
  /\ IF JsonLoadsRaises(locals.google_ads_api_credentials)
       THEN Raises("ValueError") /\ gads' = gads
       ELSE /\ gads' = [ NoClient EXCEPT !.pc = "new" ]
            /\ mpc' = "client"
            /\ outcome' = outcome
  /\ UNCHANGED << sftp, environ, secrets, retrieved, settings, locals, uploads, service, sent,
                  transformervars >>

\* Lines 96-97.
CallGetSearchTerms ==
  /\ mpc = "client"
  /\ gads.pc = "ready"
  /\ GadsCall("get_search_terms", settings["CUSTOMER_ID"].value,
              SomeStr(settings["CAMPAIGN_IDS"].value))
  /\ mpc' = "search_terms"
  /\ UNCHANGED << sftp, environ, secrets, retrieved, settings, locals, uploads, outcome,
                  service, sent, transformervars >>

\* Lines 96-103: get_search_terms has returned search_terms_df.
CallGetAdGroups ==
  /\ mpc = "search_terms"
  /\ gads.pc = "returned"
  /\ locals' = [ locals EXCEPT !.search_terms_df = gads.returned ]
  /\ GadsCall("get_ad_groups", settings["CUSTOMER_ID"].value,
              SomeStr(settings["CAMPAIGN_IDS"].value))
  /\ mpc' = "ad_groups"
  /\ UNCHANGED << sftp, environ, secrets, retrieved, settings, uploads, outcome, service, sent,
                  transformervars >>

\* ClientRaised calling the failed method of the client again.
ClientRaised_Retry ==
  /\ mpc \in {"client", "search_terms", "ad_groups"}
  /\ gads.pc = "raised"
  /\ gads' = [ gads EXCEPT !.pc = IF gads.method = "" THEN "new" ELSE "called",
                           !.request_built = FALSE ]
  /\ UNCHANGED << sftp, environ, secrets, retrieved, settings, locals, uploads,
                  service, sent, mpc, outcome, transformervars >>

\* A SAGoogleAdsClientError of the client leaves extract_and_upload_keywords.
ClientRaised ==
  /\ mpc \in {"client", "search_terms", "ad_groups"}
  /\ gads.pc = "raised"
  /\ Raises("SAGoogleAdsClientError")
  /\ UNCHANGED << sftp, environ, secrets, retrieved, settings, locals, uploads, clientvars,
                  transformervars >>

\* The arguments lines 108-115 give to SearchTermTransformer(...).
TransformerArgs(st) ==
  [ clicks_threshold |-> st["CLICKS_THRESHOLD"].value,
    conversions_threshold |-> st["CONVERSIONS_THRESHOLD"].value,
    search_term_tokens_threshold |-> st["SEARCH_TERMS_TOKENS_THRESHOLD"].value,
    sa_account_name |-> Join(st["SA360_ACCOUNT_NAME"].value),
    sa_label |-> Join(st["SA360_LABEL"].value),
    keyword_landing_page |-> Join(st["KEYWORD_LANDING_PAGE"].value),
    keyword_max_cpc |-> st["KEYWORD_MAX_CPC"].value ]

\* Lines 102-118: get_ad_groups has returned ad_groups_df; the transformer is
\* constructed on the settings and its transform called on the two reports.
CallTransformer ==
  /\ mpc = "ad_groups"
  /\ gads.pc = "returned"
  /\ locals' = [ locals EXCEPT !.ad_groups_df = gads.returned ]
  /\ pc' = "init"
  /\ args' = TransformerArgs(settings)
  /\ search_results_df' = locals.search_terms_df.data
  /\ ad_groups' = gads.returned.data
  /\ mpc' = "transformer"
  /\ UNCHANGED << self, bulksheet_columns, optional_columns, rows, i, origin,
                  result, sa_360_bulksheet_columns, calls >>
  /\ UNCHANGED << sftp, environ, secrets, retrieved, settings, uploads, outcome,
                  clientvars >>

\* The exception of SearchTermTransformer.__init__ leaves
\* extract_and_upload_keywords.
TransformerRaised ==
  /\ mpc = "transformer"
  /\ pc = "raised"
  /\ Raises("InvalidOperation")
  /\ UNCHANGED << sftp, environ, secrets, retrieved, settings, locals, uploads, clientvars,
                  transformervars >>

\* CheckBulksheet with the test of lines 120-125 made after the password is
\* retrieved: an empty bulksheet goes on to line 130.
CheckBulksheet_AfterPassword ==
  /\ mpc = "transformer"
  /\ pc = "returned"
  /\ IF result.data = <<>>
       THEN LET sa_360_sftp_password == RetrieveSecret("sa360_sftp_password")
            IN /\ retrieved' = Append(retrieved, "sa360_sftp_password")
               /\ IF sa_360_sftp_password = <<>>
                    THEN Raises("ValueError")
                    ELSE Returns("Finished: No keywords found to upload to SA 360.")
       ELSE mpc' = "upload" /\ outcome' = outcome /\ retrieved' = retrieved
  /\ UNCHANGED << sftp, environ, secrets, settings, locals, uploads, clientvars,
                  transformervars >>

\* CheckBulksheet without the test of lines 120-125.
CheckBulksheet_NeverEmpty ==
  /\ mpc = "transformer"
  /\ pc = "returned"
  /\ mpc' = "upload"
  /\ outcome' = outcome
  /\ UNCHANGED << sftp, environ, secrets, retrieved, settings, locals, uploads,
                  clientvars, transformervars >>

\* Lines 117-127: the transform has returned; an empty bulksheet ends the run.
CheckBulksheet ==
  /\ mpc = "transformer"
  /\ pc = "returned"
  /\ IF result.data = <<>>
       THEN Returns("Finished: No keywords found to upload to SA 360.")
       ELSE mpc' = "upload" /\ outcome' = outcome
  /\ UNCHANGED << sftp, environ, secrets, retrieved, settings, locals, uploads, clientvars,
                  transformervars >>

\* RetrievePassword without the test of lines 133-136.
RetrievePassword_Unchecked ==
  /\ mpc = "upload"
  /\ locals' = [ locals EXCEPT !.sa_360_sftp_password =
                   RetrieveSecret("sa360_sftp_password") ]
  /\ mpc' = "password"
  /\ outcome' = outcome
  /\ retrieved' = Append(retrieved, "sa360_sftp_password")
  /\ UNCHANGED << sftp, environ, secrets, settings, uploads, clientvars,
                  transformervars >>

\* Lines 130-136: the SFTP password secret is retrieved, and an empty one is
\* an error.
RetrievePassword ==
  /\ mpc = "upload"
  /\ LET sa_360_sftp_password == RetrieveSecret("sa360_sftp_password")
     IN IF sa_360_sftp_password = <<>>
          THEN Raises("ValueError") /\ locals' = locals
          ELSE /\ locals' = [ locals EXCEPT !.sa_360_sftp_password =
                                sa_360_sftp_password ]
               /\ mpc' = "password"
               /\ outcome' = outcome
  /\ retrieved' = Append(retrieved, "sa360_sftp_password")
  /\ UNCHANGED << sftp, environ, secrets, settings, uploads, clientvars,
                  transformervars >>

\* Upload giving the search-term report to upload_keywords_to_sa360.
Upload_SearchTermsReport ==
  /\ mpc = "password"
  /\ uploads' = Append(uploads, locals.search_terms_df)
  /\ \E fails \in { SftpFailure("never", 0), SftpFailure("connect", 0) } :
       /\ sftp' = UploadKeywordsToSa360(sftp, locals.search_terms_df,
                                        [ year |-> 2024, month |-> 1, day |-> 5 ],
                                        fails)
       /\ IF fails.at = "never"
            THEN Returns("Success: Uploaded bulksheet with "
                           \o ToString(Len(result.data)) \o " row(s).")
            ELSE Raises("SSHException")
  /\ UNCHANGED << environ, secrets, retrieved, settings, locals, clientvars,
                  transformervars >>

\* The day of the run.
UploadDay == [ year |-> 2024, month |-> 1, day |-> 5 ]

\* Lines 138-146: the bulksheet is uploaded and the success message returned,
\* or the exception of the upload leaves extract_and_upload_keywords.
Upload ==
  /\ mpc = "password"
  /\ uploads' = Append(uploads, result)
  /\ \E fails \in { SftpFailure("never", 0), SftpFailure("connect", 0) } :
       /\ sftp' = UploadKeywordsToSa360(sftp, result, UploadDay, fails)
       /\ IF fails.at = "never"
            THEN Returns("Success: Uploaded bulksheet with "
                           \o ToString(Len(result.data)) \o " row(s).")
            ELSE Raises("SSHException")
  /\ UNCHANGED << environ, secrets, retrieved, settings, locals, clientvars,
                  transformervars >>

\* ------------------------------------------------------------ main inputs
\* An environment in which every setting is set, to a value that is no
\* default.
BaseEnviron ==
  [ n \in SettingNames |->
      IF n = "GCP_PROJECT_ID" THEN <<"p", "r", "j">>
      ELSE IF n = "CUSTOMER_ID" THEN ValidCustomerId
      ELSE IF n = "SA360_SFTP_USERNAME" THEN <<"u", "s", "r">>
      ELSE IF n = "SA360_ACCOUNT_NAME" THEN <<"A", "c", "m", "e">>
      ELSE IF n = "SA360_LABEL" THEN <<"S", "A", "_", "n", "e", "w">>
      ELSE IF n = "CLICKS_THRESHOLD" THEN <<"4">>
      ELSE IF n = "CONVERSIONS_THRESHOLD" THEN <<"1">>
      ELSE IF n = "SEARCH_TERMS_TOKENS_THRESHOLD" THEN <<"2">>
      ELSE IF n = "CAMPAIGN_IDS" THEN <<"1", ",", "2">>
      ELSE IF n = "KEYWORD_LANDING_PAGE" THEN <<"g", "o", "o", ".", "g", "l">>
      ELSE <<"5">> ]

\* Other values of a setting: empty, blank, padded with whitespace; for a
\* numeric setting also a word and a padded number; for the customer id one
\* that is too short; for the campaign ids one id, ids followed by a comma, by
\* a comma and a blank, by two commas, and a comma alone; for the max CPC a
\* word.
OtherValues(n) ==
  IF n = "CUSTOMER_ID"
    THEN { <<>>, <<" ">>, <<"1", "2", "3", "4", "5">> }
  ELSE IF n \in Range(RequiredStrNames)
    THEN { <<>>, <<" ">>, <<" ", "x", "\t">> }
  ELSE IF n \in Range(RequiredNumericNames)
    THEN { <<>>, <<" ">>, <<"t", "h", "r", "e", "e">>, <<" ", "3", " ">> }
  ELSE IF n = "CAMPAIGN_IDS"
    THEN { <<>>, <<"1">>, <<"1", ",">>, <<"1", ",", " ">>, <<"1", ",", ",">>,
           <<",">> }
  ELSE IF n = "KEYWORD_LANDING_PAGE"
    THEN { <<>> }
  ELSE { <<>>, <<"a", "b", "c">> }

\* env, and every environment that differs from it in one variable that is
\* set: the variable unset, or set to another of its values.
Variants(env) ==
  {env} \cup { [ k \in (DOMAIN env) \ {n} |-> env[k] ] : n \in DOMAIN env }
        \cup UNION { { [ env EXCEPT ![n] = v ] : v \in OtherValues(n) } :
                       n \in DOMAIN env }

\* The environments explored differ from BaseEnviron in at most two variables.
Environs == UNION { Variants(env) : env \in Variants(BaseEnviron) }

\* Payloads of a secret: empty, blank, a JSON document in whitespace, and a
\* word.
SecretPayloads ==
  { <<>>, <<" ", "\n">>, <<" ", "{", "}", "\n">>, <<"p", "w">> }

GoodSecrets ==
  [ n \in {"google_ads_api_credentials", "sa360_sftp_password"} |->
      IF n = "google_ads_api_credentials" THEN <<" ", "{", "}", "\n">>
      ELSE <<"p", "w">> ]

\* ------------------------------------------------------------ whole run
\* One behaviour is one call of extract_and_upload_keywords.  Three families
\* of runs are explored: every environment of Environs with good secrets and
\* a good service; every payload of the two secrets with every behaviour of
\* the service in BaseEnviron; and each numeric setting set to "nan", with a
\* service that fails to load, which ends the run before a NaN threshold
\* reaches the transformer (whose numbers the model keeps whole).
MainInit ==
  /\ TransformerIdle
  /\ mpc = "start"
  /\ \/ /\ environ \in Environs
        /\ secrets = GoodSecrets
        /\ service = GoodService
     \/ /\ environ = BaseEnviron
        /\ secrets \in [ {"google_ads_api_credentials", "sa360_sftp_password"} ->
                           SecretPayloads ]
        /\ service \in ServiceScenarios
     \/ /\ environ \in { [ BaseEnviron EXCEPT ![n] = <<"n", "a", "n">> ] :
                           n \in Range(RequiredNumericNames) }
        /\ secrets = GoodSecrets
        /\ service = [ GoodService EXCEPT !.load_fails = TRUE ]
  /\ settings = EmptyDict
  /\ locals = NoLocals
  /\ gads = NoClient
  /\ sent = <<>>
  /\ uploads = <<>>
  /\ sftp = NoSftp
  /\ retrieved = <<>>
  /\ outcome = NoOutcome

MainNext ==
  \/ LoadSettings
  \/ SanitizeSettings
  \/ RetrieveCredentials
  \/ NewGoogleAdsClient
  \/ GadsConstruct
  \/ CallGetSearchTerms
  \/ GadsBegin
  \/ GadsReadBatch
  \/ GadsReturn
  \/ CallGetAdGroups
  \/ ClientRaised
  \/ CallTransformer
  \/ Construct
  \/ TransformBegin
  \/ ProcessRow
  \/ Return
  \/ TransformerRaised
  \/ CheckBulksheet
  \/ RetrievePassword
  \/ Upload

MainSpec == MainInit /\ [][MainNext]_vars

\* ------------------------------------------------------------ several calls
\* Most transform calls explored in one process.
MaxCalls == 2

\* Configurations with and without each optional column.
CallsArgs ==
  Args({DEFAULT_CLICKS_THRESHOLD}, {DEFAULT_CONVERSIONS_THRESHOLD},
       {DEFAULT_SEARCH_TERM_TOKENS_THRESHOLD}, {"Google"},
       {DEFAULT_SA360_LABEL}, {"", "www.google.com/saka"}, {<<>>, <<"5">>})

\* A qualifying row of the given search term.
CallsRow(term) ==
  [ search_term |-> term, status |-> "NONE", conversions |-> 0, clicks |-> 6,
    ad_group_name |-> "ag1", campaign_id |-> "12345",
    campaign_name |-> "camp1", ctr |-> 10, keyword_text |-> "" ]

\* Reports with no row, with a row that yields two rows, and with a second
\* row that yields one; ad-group reports without and with the row's ad group.
CallsReports ==
  { <<>>, << CallsRow(ThreeTokens) >>,
    << CallsRow(ThreeTokens), CallsRow(FourTokens) >> }

CallsAdGroups == { <<>>, << [ ad_group_name |-> "ag1", ctr |-> 5 ] >> }

CallsInit ==
  /\ pc = "init"
  /\ args \in CallsArgs
  /\ search_results_df \in CallsReports
  /\ ad_groups \in CallsAdGroups
  /\ self = None
  /\ bulksheet_columns = <<>>
  /\ optional_columns = EmptyDict
  /\ rows = <<>>
  /\ i = 0
  /\ origin = <<>>
  /\ result = None
  /\ sa_360_bulksheet_columns = SA_360_BULKSHEET_COLUMNS
  /\ calls = <<>>
  /\ MainIdle

\* The transformer at hand is given another pair of reports.
CallAgain ==
  /\ pc = "returned"
  /\ Len(calls) < MaxCalls
  /\ pc' = "constructed"
  /\ search_results_df' \in CallsReports
  /\ ad_groups' \in CallsAdGroups
  /\ UNCHANGED << args, self, bulksheet_columns, optional_columns, rows, i,
                  origin, result, sa_360_bulksheet_columns, calls >>
  /\ UNCHANGED << clientvars, mainvars >>

\* Another transformer is constructed in the same process, for another pair
\* of reports.
NewTransformer ==
  /\ pc = "returned"
  /\ Len(calls) < MaxCalls
  /\ pc' = "init"
  /\ args' \in CallsArgs
  /\ self' = None
  /\ search_results_df' \in CallsReports
  /\ ad_groups' \in CallsAdGroups
  /\ UNCHANGED << bulksheet_columns, optional_columns, rows, i, origin, result,
                  sa_360_bulksheet_columns, calls >>
  /\ UNCHANGED << clientvars, mainvars >>

CallsNext ==
  \/ Construct
  \/ TransformBegin
  \/ ProcessRow
  \/ Return
  \/ CallAgain
  \/ NewTransformer

CallsSpec == CallsInit /\ [][CallsNext]_vars

\* ------------------------------------------------------------ uploads alone
\* Most uploads explored on one server.
MaxUploads == 2

\* Days: two that follow each other, and one of another month with a day of
\* two digits.
UploadDays ==
  { UploadDay, [ year |-> 2024, month |-> 1, day |-> 6 ],
    [ year |-> 2024, month |-> 12, day |-> 25 ] }

\* The days in the order of the calendar.
DayNumber(date) == date.year * 10000 + date.month * 100 + date.day

\* Bulksheets of one row and of two.
UploadBulksheet(types) ==
  [ columns |-> SA_360_BULKSHEET_COLUMNS,
    data |-> [ p \in 1..Len(types) |->
                 [ c \in Range(SA_360_BULKSHEET_COLUMNS) |->
                     IF c = SA_360_COLUMN_KEYWORD_MATCH_TYPE THEN types[p]
                     ELSE c ] ] ]

UploadBulksheets ==
  { UploadBulksheet(<<MATCH_TYPE_BROAD>>),
    UploadBulksheet(<<MATCH_TYPE_EXACT, MATCH_TYPE_PHRASE>>) }

\* The server's behaviours: the upload succeeds, or fails at connect, at the
\* opening of the file, or in the write before any line or after the first.
SftpFailures ==
  { SftpFailure("never", 0), SftpFailure("connect", 0), SftpFailure("open", 0),
    SftpFailure("write", 0), SftpFailure("write", 1) }

UploadInit ==
  /\ TransformerIdle
  /\ mpc = "none"
  /\ environ = EmptyDict
  /\ secrets = EmptyDict
  /\ service = EmptyDict
  /\ settings = EmptyDict
  /\ locals = NoLocals
  /\ gads = NoClient
  /\ sent = <<>>
  /\ uploads = <<>>
  /\ retrieved = <<>>
  /\ outcome = NoOutcome
  /\ sftp = NoSftp

\* One call of upload_keywords_to_sa360, on the day of the last upload or a
\* later one.
DirectUpload ==
  /\ mpc = "none"
  /\ Len(sftp.log) < MaxUploads
  /\ \E df \in UploadBulksheets, today \in UploadDays, fails \in SftpFailures :
       /\ \A k \in 1..Len(sftp.log) :
            DayNumber(sftp.log[k].today) <= DayNumber(today)
       /\ sftp' = UploadKeywordsToSa360(sftp, df, today, fails)
       /\ uploads' = Append(uploads, df)
  /\ UNCHANGED << mpc, environ, secrets, settings, locals, retrieved, outcome,
                  clientvars, transformervars >>

UploadNext == DirectUpload

UploadSpec == UploadInit /\ [][UploadNext]_vars

\* ------------------------------------------------------------ properties
\* The statements below are written from the configuration (args) and the two
\* reports, not from the transformer's fields or its helper methods.

Returned == pc = "returned"

\* The report rows, and the positions of the returned table.
ReportIndex == 1..Len(search_results_df)
OutputIndex == 1..Len(result.data)

\* The positions of the returned table that report row k produced.
OutputsOf(k) == { p \in OutputIndex : origin[p] = k }

MatchTypeAt(p) == result.data[p][SA_360_COLUMN_KEYWORD_MATCH_TYPE]

\* The baseline CTR of an ad group: the ctr the ad-group report gives for the
\* name (its first row of that name), 0 when the report has no such name.
InAdGroupReport(name) == \E p \in 1..Len(ad_groups) : ad_groups[p].ad_group_name = name

Baseline(name) ==
  LET named == { p \in 1..Len(ad_groups) : ad_groups[p].ad_group_name = name }
  IN IF named = {} THEN 0
     ELSE ad_groups[CHOOSE p \in named : \A q \in named : p <= q].ctr

\* Number of whitespace-separated tokens: the positions where a token starts.
TokenCount(s) ==
  Cardinality({ p \in 1..Len(s) :
                  /\ ~IsSpace(s[p])
                  /\ (p = 1 \/ IsSpace(s[p - 1])) })

ConversionsOver(r) == r.conversions > args.conversions_threshold
CtrOver(r) == r.ctr > Baseline(r.ad_group_name)
ClicksOver(r) == r.clicks > args.clicks_threshold

\* C1: a search-term row yields at least one bulksheet row if and only if
\* conversions > conversions_threshold, or ctr > the baseline of its ad group
\* and clicks > clicks_threshold; any other row yields no bulksheet row.
C1_QualificationRule ==
  Returned =>
    \A k \in ReportIndex :
      LET r == search_results_df[k]
      IN (OutputsOf(k) # {}) <=>
           (ConversionsOver(r) \/ (CtrOver(r) /\ ClicksOver(r)))

\* A returned table in which one report row produced rows through the CTR
\* branch alone and another report row produced none.
C1_Witness ==
  /\ Returned
  /\ \E k \in ReportIndex :
       /\ OutputsOf(k) # {}
       /\ ~ConversionsOver(search_results_df[k])
  /\ \E k \in ReportIndex : OutputsOf(k) = {}

\* C2: a row with conversions, ctr and clicks all equal to their thresholds
\* yields nothing, and a comparison at equality never qualifies a row: with
\* conversions at the threshold a row qualifies only by ctr and clicks both
\* strictly over, with ctr or clicks at the threshold only by conversions.
C2_ThresholdStrictness ==
  Returned =>
    \A k \in ReportIndex :
      LET r == search_results_df[k]
          at_conv == r.conversions = args.conversions_threshold
          at_ctr == r.ctr = Baseline(r.ad_group_name)
          at_clicks == r.clicks = args.clicks_threshold
      IN /\ (at_conv /\ at_ctr /\ at_clicks) => OutputsOf(k) = {}
         /\ (at_conv /\ OutputsOf(k) # {}) => (CtrOver(r) /\ ClicksOver(r))
         /\ (at_ctr /\ OutputsOf(k) # {}) => ConversionsOver(r)
         /\ (at_clicks /\ OutputsOf(k) # {}) => ConversionsOver(r)

\* A returned table for a report row that sits on all three thresholds (its ad
\* group is in the ad-group report) and produced nothing.
C2_Witness ==
  /\ Returned
  /\ \E k \in ReportIndex :
       LET r == search_results_df[k]
       IN /\ InAdGroupReport(r.ad_group_name)
          /\ r.conversions = args.conversions_threshold
          /\ r.ctr = Baseline(r.ad_group_name)
          /\ r.clicks = args.clicks_threshold
          /\ OutputsOf(k) = {}

\* C3: every row with conversions > conversions_threshold yields bulksheet
\* rows, whatever its ctr and clicks.
C3_ConversionsShortCircuit ==
  Returned =>
    \A k \in ReportIndex :
      ConversionsOver(search_results_df[k]) => OutputsOf(k) # {}

\* A row over the conversions threshold with ctr below its ad group's and
\* clicks below the clicks threshold, which produced rows.
C3_Witness ==
  /\ Returned
  /\ \E k \in ReportIndex :
       LET r == search_results_df[k]
       IN /\ ConversionsOver(r)
          /\ r.ctr < Baseline(r.ad_group_name)
          /\ r.clicks < args.clicks_threshold
          /\ OutputsOf(k) # {}

\* C4: a qualifying row whose search term has more tokens than
\* search_term_tokens_threshold yields exactly one row, of match type broad;
\* any other qualifying row (a token count equal to the threshold included)
\* yields exactly two rows, one exact and one phrase.
C4_TokenCountBranch ==
  Returned =>
    \A k \in ReportIndex :
      LET r == search_results_df[k]
          types == { MatchTypeAt(p) : p \in OutputsOf(k) }
      IN OutputsOf(k) # {} =>
           IF TokenCount(r.search_term) > args.search_term_tokens_threshold
             THEN /\ Cardinality(OutputsOf(k)) = 1
                  /\ types = {MATCH_TYPE_BROAD}
             ELSE /\ Cardinality(OutputsOf(k)) = 2
                  /\ types = {MATCH_TYPE_EXACT, MATCH_TYPE_PHRASE}

\* Threshold 3: a 3-token term produced an exact and a phrase row and a
\* 4-token term of the same report produced one broad row.
C4_Witness ==
  /\ Returned
  /\ args.search_term_tokens_threshold = 3
  /\ \E k, l \in ReportIndex :
       /\ TokenCount(search_results_df[k].search_term) = 3
       /\ { MatchTypeAt(p) : p \in OutputsOf(k) } =
            {MATCH_TYPE_EXACT, MATCH_TYPE_PHRASE}
       /\ Cardinality(OutputsOf(k)) = 2
       /\ TokenCount(search_results_df[l].search_term) = 4
       /\ { MatchTypeAt(p) : p \in OutputsOf(l) } = {MATCH_TYPE_BROAD}
       /\ Cardinality(OutputsOf(l)) = 1

\* C5: a row whose ad group is not in the ad-group report (an empty report
\* included) is neither an error nor skipped: the transform runs to its return
\* over every report row, and the row is judged against baseline 0, so that
\* without the conversions branch it qualifies iff ctr > 0 and
\* clicks > clicks_threshold.
C5_MissingAdGroupIsCtrZero ==
  /\ pc = "raised" => self = None
  /\ Returned =>
       /\ i = Len(search_results_df)
       /\ \A k \in ReportIndex :
            LET r == search_results_df[k]
            IN ~InAdGroupReport(r.ad_group_name) =>
                 /\ (OutputsOf(k) # {}) <=>
                      (ConversionsOver(r) \/ (r.ctr > 0 /\ ClicksOver(r)))
                 /\ ~ConversionsOver(r) =>
                      ((OutputsOf(k) # {}) <=> (r.ctr > 0 /\ ClicksOver(r)))

\* A row of an ad group the report does not name, with ctr over 0 but not
\* over every ctr of the report, which qualified by the CTR branch.
C5_Witness ==
  /\ Returned
  /\ ad_groups # <<>>
  /\ \E k \in ReportIndex :
       LET r == search_results_df[k]
       IN /\ ~InAdGroupReport(r.ad_group_name)
          /\ ~ConversionsOver(r)
          /\ \A p \in 1..Len(ad_groups) : r.ctr <= ad_groups[p].ctr
          /\ OutputsOf(k) # {}

\* C6: the returned rows are in the order of the report rows that produced
\* them, the rows of one report row are adjacent, and an exact row is
\* immediately followed by the phrase row of the same report row (and a phrase
\* row immediately preceded by that exact row).
C6_OutputOrdering ==
  Returned =>
    /\ \A p, q \in OutputIndex : p < q => origin[p] <= origin[q]
    /\ \A p, q \in OutputIndex :
         (p < q /\ origin[p] = origin[q]) =>
           \A m \in p..q : origin[m] = origin[p]
    /\ \A p \in OutputIndex :
         /\ MatchTypeAt(p) = MATCH_TYPE_EXACT =>
              /\ p + 1 \in OutputIndex
              /\ origin[p + 1] = origin[p]
              /\ MatchTypeAt(p + 1) = MATCH_TYPE_PHRASE
         /\ MatchTypeAt(p) = MATCH_TYPE_PHRASE =>
              /\ p - 1 \in OutputIndex
              /\ origin[p - 1] = origin[p]
              /\ MatchTypeAt(p - 1) = MATCH_TYPE_EXACT

\* Two report rows that both produced rows, the earlier one an exact and a
\* phrase row.
C6_Witness ==
  /\ Returned
  /\ \E k, l \in ReportIndex :
       /\ k < l
       /\ Cardinality(OutputsOf(k)) = 2
       /\ OutputsOf(l) # {}

\* C7: every returned row has Row type "keyword", Action "create", the
\* configured account and label, and the campaign_name, ad_group_name and
\* search_term of the report row that produced it.
C7_RowContent ==
  Returned =>
    \A p \in OutputIndex :
      LET out == result.data[p]
          r == search_results_df[origin[p]]
      IN /\ out[SA_360_COLUMN_ROW_TYPE] = "keyword"
         /\ out[SA_360_COLUMN_ACTION] = "create"
         /\ out[SA_360_COLUMN_ACCOUNT] = args.sa_account_name
         /\ out[SA_360_COLUMN_LABEL] = args.sa_label
         /\ out[SA_360_COLUMN_CAMPAIGN] = r.campaign_name
         /\ out[SA_360_COLUMN_AD_GROUP] = r.ad_group_name
         /\ out[SA_360_COLUMN_KEYWORD] = r.search_term

\* Rows returned for two report rows that differ in campaign, ad group and
\* search term.
C7_Witness ==
  /\ Returned
  /\ \E k, l \in ReportIndex :
       /\ OutputsOf(k) # {}
       /\ OutputsOf(l) # {}
       /\ search_results_df[k].campaign_name # search_results_df[l].campaign_name
       /\ search_results_df[k].ad_group_name # search_results_df[l].ad_group_name
       /\ search_results_df[k].search_term # search_results_df[l].search_term

\* The column list the configuration asks for: the 8 core columns, then
\* Keyword landing page when keyword_landing_page is set, then Keyword max CPC
\* when keyword_max_cpc is set.
ConfiguredColumns ==
  SA_360_BULKSHEET_COLUMNS
    \o (IF args.keyword_landing_page # ""
          THEN <<SA_360_COLUMN_KEYWORD_LANDING_PAGE>> ELSE <<>>)
    \o (IF args.keyword_max_cpc # <<>>
          THEN <<SA_360_COLUMN_KEYWORD_MAX_CPC>> ELSE <<>>)

\* C8: the column list is fixed from the configuration before the first
\* report row is processed, it is the configured column list, it is the
\* column list of the returned table with or without rows, and every row
\* appended has exactly these columns.
C8_ColumnStability ==
  /\ pc \in {"loop", "returned"} =>
       /\ bulksheet_columns = ConfiguredColumns
       /\ \A p \in 1..Len(rows) : DOMAIN rows[p] = Range(ConfiguredColumns)
  /\ Returned =>
       /\ result.columns = ConfiguredColumns
       /\ \A p \in OutputIndex :
            DOMAIN result.data[p] = Range(ConfiguredColumns)

\* The part of C8 that does not say which columns are configured: the list
\* chosen before the loop is the list of the returned table, every row has
\* exactly its columns, and it is the core list followed by a sublist of the
\* two optional columns in their order.
C8_UniformColumns ==
  /\ pc \in {"loop", "returned"} =>
       /\ \A p \in 1..Len(rows) : DOMAIN rows[p] = Range(bulksheet_columns)
       /\ \E tail \in { <<>>, <<SA_360_COLUMN_KEYWORD_LANDING_PAGE>>,
                        <<SA_360_COLUMN_KEYWORD_MAX_CPC>>,
                        << SA_360_COLUMN_KEYWORD_LANDING_PAGE,
                           SA_360_COLUMN_KEYWORD_MAX_CPC >> } :
            bulksheet_columns = SA_360_BULKSHEET_COLUMNS \o tail
  /\ Returned =>
       /\ result.columns = bulksheet_columns
       /\ \A p \in OutputIndex :
            DOMAIN result.data[p] = Range(bulksheet_columns)

\* C9: the Keyword max CPC column is left out only when keyword_max_cpc is
\* empty, and for every non-empty keyword_max_cpc that is a decimal number
\* every returned row carries the column with that number rounded to 2 places.
C9_MaxCpcColumn ==
  Returned =>
    /\ SA_360_COLUMN_KEYWORD_MAX_CPC \notin Range(result.columns) =>
         args.keyword_max_cpc = <<>>
    /\ (args.keyword_max_cpc # <<>> /\ IsDecimalString(args.keyword_max_cpc)) =>
         \A p \in OutputIndex :
           /\ SA_360_COLUMN_KEYWORD_MAX_CPC \in DOMAIN result.data[p]
           /\ result.data[p][SA_360_COLUMN_KEYWORD_MAX_CPC] =
                Round2(Decimal(args.keyword_max_cpc))

NoRowQualifies ==
  \A k \in ReportIndex :
    LET r == search_results_df[k]
    IN ~(ConversionsOver(r) \/ (CtrOver(r) /\ ClicksOver(r)))

\* C10: the transform of a report with no rows, or with no qualifying row,
\* raises nothing (an exception leaves only __init__, and a transform that has
\* started always has its next step) and returns a table with no rows.
C10_EmptyResultIsNotAnError ==
  /\ pc = "raised" => self = None
  /\ pc \in {"constructed", "loop"} => ENABLED Next
  /\ (Returned /\ NoRowQualifies) => result.data = <<>>

\* A table with no rows returned for a report that has rows, none of which
\* qualifies.
C10_Witness ==
  /\ Returned
  /\ search_results_df # <<>>
  /\ ad_groups # <<>>
  /\ NoRowQualifies
  /\ result.data = <<>>

\* ------------------------------------------------------------ C11
\* No row has been classified and no table exists.
NothingProcessed ==
  /\ self = None
  /\ bulksheet_columns = <<>>
  /\ rows = <<>>
  /\ i = 0
  /\ result = None

BulksheetMade == mpc \notin {"none", "start"} /\ pc = "returned"

C12_FinishedReached ==
  /\ mpc = "done"
  /\ search_results_df # <<>>
  /\ result.data = <<>>

\* ------------------------------------------------------------ C13
\* C13: when the credentials secret is empty, the run raises ValueError as
\* soon as it is past the settings, and no Google Ads client is ever made and
\* no request sent; when the bulksheet is not empty and the SFTP password
\* secret is empty, the run raises ValueError and nothing is ever uploaded.
C13_MissingSecretsAbort ==
  /\ Strip(secrets["google_ads_api_credentials"]) = <<>> =>
       /\ gads = NoClient
       /\ sent = <<>>
       /\ pc = "none"
       /\ mpc \notin {"start", "loaded", "sanitized"} =>
            mpc = "raised" /\ outcome = [ kind |-> "raise", value |-> "ValueError" ]
  /\ ( /\ BulksheetMade
       /\ result.data # <<>>
       /\ Strip(secrets["sa360_sftp_password"]) = <<>> ) =>
       /\ uploads = <<>>
       /\ mpc \in {"transformer", "upload", "raised"}
       /\ mpc = "raised" =>
            outcome = [ kind |-> "raise", value |-> "ValueError" ]

\* A run with a bulksheet to upload raised on a blank SFTP password.
C13_Witness ==
  /\ mpc = "raised"
  /\ BulksheetMade
  /\ result.data # <<>>
  /\ secrets["sa360_sftp_password"] = <<" ", "\n">>
  /\ retrieved = << "google_ads_api_credentials", "sa360_sftp_password" >>

\* A run raised on an empty credentials secret.
C13_CredentialsReached ==
  /\ mpc = "raised"
  /\ secrets["google_ads_api_credentials"] = <<>>
  /\ retrieved = << "google_ads_api_credentials" >>

\* ------------------------------------------------------------ C14
\* Every character of s is whitespace (so is the empty str).
AllSpace(s) == \A p \in 1..Len(s) : IsSpace(s[p])

\* v is s without the whitespace around it.
StrippedOf(v, s) ==
  /\ v # <<>>
  /\ ~IsSpace(v[1])
  /\ ~IsSpace(v[Len(v)])
  /\ \E k \in 0..(Len(s) - Len(v)) :
       /\ SubSeq(s, k + 1, k + Len(v)) = v
       /\ AllSpace(SubSeq(s, 1, k))
       /\ AllSpace(SubSeq(s, k + Len(v) + 1, Len(s)))

\* The required string settings, and the value each has after loading: the
\* environment's, or the default (none for the first three).
RequiredStrs ==
  { "GCP_PROJECT_ID", "CUSTOMER_ID", "SA360_SFTP_USERNAME",
    "SA360_ACCOUNT_NAME", "SA360_LABEL" }

BlankAfterLoading(n) ==
  IF n \in DOMAIN environ THEN AllSpace(environ[n])
  ELSE n \in {"GCP_PROJECT_ID", "CUSTOMER_ID", "SA360_SFTP_USERNAME"}

\* Nothing has been done beyond the settings: no secret retrieved, no client
\* made, no request sent, no transformer made, nothing uploaded.
OnlySettingsTouched ==
  /\ retrieved = <<>>
  /\ locals = NoLocals
  /\ gads = NoClient
  /\ sent = <<>>
  /\ pc = "none"
  /\ uploads = <<>>

\* C14: when a required string setting is empty or all whitespace after
\* loading, the run raises ValueError in _sanitize_settings, before any
\* secret is retrieved, any report fetched or any upload made; otherwise
\* every required string setting that is set in the environment is stored
\* without the whitespace around it.
C14_RequiredStringSettings ==
  mpc \notin {"none", "start", "loaded"} =>
    IF \E n \in RequiredStrs : BlankAfterLoading(n)
      THEN /\ mpc = "raised"
           /\ outcome = [ kind |-> "raise", value |-> "ValueError" ]
           /\ OnlySettingsTouched
      ELSE \A n \in RequiredStrs :
             n \in DOMAIN environ =>
               /\ settings[n].type = "str"
               /\ StrippedOf(settings[n].value, environ[n])

\* A run raised on a label of one blank, every other setting being set.
C14_Witness ==
  /\ mpc = "raised"
  /\ DOMAIN environ = SettingNames
  /\ environ["SA360_LABEL"] = <<" ">>
  /\ \A n \in RequiredStrs \ {"SA360_LABEL"} : ~BlankAfterLoading(n)

\* A run stored a setting it had to strip.
C14_StrippedReached ==
  /\ mpc = "done"
  /\ "SA360_LABEL" \in DOMAIN environ
  /\ environ["SA360_LABEL"] = <<" ", "x", "\t">>
  /\ settings["SA360_LABEL"].value = <<"x">>

\* ------------------------------------------------------------ C15
RequiredNumerics ==
  { "CLICKS_THRESHOLD", "CONVERSIONS_THRESHOLD",
    "SEARCH_TERMS_TOKENS_THRESHOLD" }

\* s spells no number: it has no digit, or a character that is neither a
\* digit, a point nor whitespace.
NotANumber(s) ==
  \/ \A p \in 1..Len(s) : ~IsDigit(s[p])
  \/ \E p \in 1..Len(s) : ~IsDigit(s[p]) /\ s[p] # "." /\ ~IsSpace(s[p])

\* C15: when a numeric setting is set in the environment to the
\* empty string or to a string that is no number, the run raises ValueError
\* in _sanitize_settings, before any secret is retrieved or report fetched;
\* the default is not used in its place.
C15_RequiredNumericSettings ==
  ( /\ mpc \notin {"none", "start", "loaded"}
    /\ \E n \in RequiredNumerics :
         n \in DOMAIN environ /\ NotANumber(environ[n]) ) =>
    /\ mpc = "raised"
    /\ outcome = [ kind |-> "raise", value |-> "ValueError" ]
    /\ OnlySettingsTouched
    /\ \A n \in RequiredNumerics :
         (n \in DOMAIN environ /\ environ[n] = <<>>) =>
           settings[n] = PyStr(<<>>)

\* s is "nan", in whitespace or not.
SpellsNan(s) ==
  \E k \in 1..(Len(s) - 2) :
    /\ SubSeq(s, k, k + 2) = <<"n", "a", "n">>
    /\ AllSpace(SubSeq(s, 1, k - 1))
    /\ AllSpace(SubSeq(s, k + 3, Len(s)))

\* Apart from "nan" the statement holds: when a numeric setting is set to
\* the empty string or to a string that is no number and that float() does
\* not take for NaN, the run raises ValueError in _sanitize_settings, before
\* any secret is retrieved or report fetched, and the default is not used in
\* its place.
C15_RequiredNumericSettingsButNan ==
  ( /\ mpc \notin {"none", "start", "loaded"}
    /\ \E n \in RequiredNumerics :
         /\ n \in DOMAIN environ
         /\ NotANumber(environ[n])
         /\ ~SpellsNan(environ[n]) ) =>
    /\ mpc = "raised"
    /\ outcome = [ kind |-> "raise", value |-> "ValueError" ]
    /\ OnlySettingsTouched
    /\ \A n \in RequiredNumerics :
         (n \in DOMAIN environ /\ environ[n] = <<>>) =>
           settings[n] = PyStr(<<>>)

\* A run raised on a clicks threshold set to the empty string, every other
\* setting being good.
C15_Witness ==
  /\ mpc = "raised"
  /\ environ = [ BaseEnviron EXCEPT !["CLICKS_THRESHOLD"] = <<>> ]

\* A run raised on a threshold set to a word, every other setting being good.
C15_WordReached ==
  /\ mpc = "raised"
  /\ environ =
       [ BaseEnviron EXCEPT !["CONVERSIONS_THRESHOLD"] =
           <<"t", "h", "r", "e", "e">> ]

\* ------------------------------------------------------------ C16
\* The variable n is not set in the environment.
Absent(n) == n \notin DOMAIN environ

\* C16: a transformer made by the orchestrator has clicks threshold 5,
\* conversions threshold 0, tokens threshold 3, label "SA_add" and account
\* name "Google" wherever the corresponding environment variable is absent,
\* and an empty landing page and max CPC where theirs are; absent campaign
\* ids are loaded, and passed to the report fetches, as the empty string.
C16_SettingDefaults ==
  /\ (mpc # "none" /\ pc # "none") =>
       /\ Absent("CLICKS_THRESHOLD") => args.clicks_threshold = 5
       /\ Absent("CONVERSIONS_THRESHOLD") => args.conversions_threshold = 0
       /\ Absent("SEARCH_TERMS_TOKENS_THRESHOLD") =>
            args.search_term_tokens_threshold = 3
       /\ Absent("SA360_LABEL") => args.sa_label = "SA_add"
       /\ Absent("SA360_ACCOUNT_NAME") => args.sa_account_name = "Google"
       /\ Absent("KEYWORD_LANDING_PAGE") => args.keyword_landing_page = ""
       /\ Absent("KEYWORD_MAX_CPC") => args.keyword_max_cpc = <<>>
  /\ (mpc \notin {"none", "start"} /\ Absent("CAMPAIGN_IDS")) =>
       /\ settings["CAMPAIGN_IDS"] = PyStr(<<>>)
       /\ gads.pc \notin {"none", "new", "ready"} =>
            gads.campaign_ids = SomeStr(<<>>)

\* A transformer was made with the account name and the clicks threshold
\* absent from the environment.
C16_Witness ==
  /\ mpc = "done"
  /\ Absent("SA360_ACCOUNT_NAME")
  /\ Absent("CLICKS_THRESHOLD")
  /\ pc = "returned"
  /\ result.data # <<>>
  /\ \A p \in 1..Len(result.data) : result.data[p]["Account"] = "Google"

\* A run fetched both reports with the campaign ids absent.
C16_CampaignIdsReached ==
  /\ mpc = "done"
  /\ Absent("CAMPAIGN_IDS")
  /\ Len(sent) = 2

\* ------------------------------------------------------------ C17
\* _sanitize_settings has returned without raising.
Sanitized ==
  /\ mpc \notin {"none", "start", "loaded"}
  /\ ~(mpc = "raised" /\ retrieved = <<>>)

EndsWithComma(s) == s # <<>> /\ s[Len(s)] = ","

\* C17: whatever CAMPAIGN_IDS is set to, the value _sanitize_settings leaves
\* in settings does not end with a comma, and neither does the value passed
\* to get_search_terms and get_ad_groups.
C17_NoTrailingSeparator ==
  Sanitized =>
    /\ ~EndsWithComma(settings["CAMPAIGN_IDS"].value)
    /\ gads.pc \notin {"none", "new", "ready"} =>
         ~EndsWithComma(gads.campaign_ids.chars)

\* One comma is removed: the statement holds of every CAMPAIGN_IDS that,
\* stripped, does not end with two commas.
C17_OneCommaRemoved ==
  ( /\ Sanitized
    /\ "CAMPAIGN_IDS" \in DOMAIN environ
    /\ LET campaign_ids == Strip(environ["CAMPAIGN_IDS"])
       IN ~( /\ EndsWithComma(campaign_ids)
             /\ EndsWithComma(SubSeq(campaign_ids, 1, Len(campaign_ids) - 1)) )
  ) => ~EndsWithComma(settings["CAMPAIGN_IDS"].value)

\* Both reports were asked for with campaign ids that end with a comma.
C17_TrailingCommaSent ==
  /\ mpc = "done"
  /\ Len(sent) = 2
  /\ "CAMPAIGN_IDS" \in DOMAIN environ
  /\ environ["CAMPAIGN_IDS"] = <<"1", ",", ",">>
  /\ gads.campaign_ids = SomeStr(<<"1", ",">>)

\* ------------------------------------------------------------ C18
\* The base query of the method in progress.
BaseQuery ==
  IF gads.method = "get_search_terms" THEN SEARCH_REPORT_QUERY
  ELSE AD_GROUP_QUERY

\* The campaign ids given to the method in progress are neither absent nor
\* empty.
CampaignIdsGiven == ~gads.campaign_ids.is_none /\ gads.campaign_ids.chars # <<>>

\* C18: the request built by get_search_terms or by get_ad_groups is the
\* method's base query followed by " AND campaign.id IN (<ids>)" when the
\* campaign ids are not empty, and the base query unchanged when they are
\* empty or absent; it is the request given to the service.
C18_CampaignFilter ==
  gads.request_built =>
    /\ sent # <<>>
    /\ sent[Len(sent)] = gads.search_request
    /\ gads.search_request.customer_id = gads.customer_id
    /\ (gads.search_request.query # BaseQuery) <=> CampaignIdsGiven
    /\ CampaignIdsGiven =>
         gads.search_request.query =
           BaseQuery \o " AND campaign.id IN ("
             \o Join(gads.campaign_ids.chars) \o ")"

\* get_ad_groups sent a request restricted to two campaigns.
C18_Witness ==
  /\ gads.method = "get_ad_groups"
  /\ gads.request_built
  /\ gads.search_request.query = AD_GROUP_QUERY \o " AND campaign.id IN (1,2)"

\* get_search_terms sent its base query for absent campaign ids.
C18_UnrestrictedReached ==
  /\ gads.method = "get_search_terms"
  /\ gads.request_built
  /\ gads.campaign_ids.is_none
  /\ gads.search_request.query = SEARCH_REPORT_QUERY

\* ------------------------------------------------------------ C19
\* A string of exactly ten digits, as str.isdigit() knows digits.
TenDigits(s) ==
  /\ Len(s) = 10
  /\ \A p \in 1..Len(s) : s[p] \in { Digits[d] : d \in 1..Len(Digits) } \cup {"²"}

\* A method of the client was called and went past its first statements.
MethodBegun ==
  /\ gads.method \in Methods
  /\ gads.pc \in {"streaming", "returned", "raised"}

C19_TooLongReached ==
  /\ gads.method = "get_search_terms"
  /\ Len(gads.customer_id) = 11
  /\ gads.pc = "raised"
  /\ sent = <<>>

\* ------------------------------------------------------------ C20
\* The result stream of the method in progress.
StreamInProgress == StreamOf(service, gads.method)

C20_LoadFailureReached == service.load_fails /\ gads.pc = "raised"

\* get_ad_groups raised when the service failed to open the stream.
C20_OpenFailureReached ==
  /\ gads.method = "get_ad_groups"
  /\ gads.request_built
  /\ service.ad_groups.fails = "open"
  /\ gads.pc = "raised"

\* ------------------------------------------------------------ C21
\* The rows of a stream's batches, batch after batch.
RECURSIVE StreamRows(_)
StreamRows(batches) ==
  IF batches = <<>> THEN <<>>
  ELSE Head(batches) \o StreamRows(Tail(batches))

\* The table row carries the values of the streamed row.
CarriesRow(method, record, row) ==
  IF method = "get_search_terms"
    THEN /\ DOMAIN record = Range(SEARCH_REPORT_COLUMNS)
         /\ record["search_term"] = row.search_term_view.search_term
         /\ record["status"] = row.search_term_view.status
         /\ record["conversions"] = row.metrics.conversions
         /\ record["clicks"] = row.metrics.clicks
         /\ record["ad_group_name"] = row.ad_group.name
         /\ record["campaign_id"] = row.campaign.id
         /\ record["campaign_name"] = row.campaign.name
         /\ record["ctr"] = row.metrics.ctr
         /\ record["keyword_text"] = row.segments.keyword.info.text
    ELSE /\ DOMAIN record = Range(AD_GROUP_COLUMNS)
         /\ record["ad_group_name"] = row.ad_group.name
         /\ record["ctr"] = row.metrics.ctr

\* C21: the table get_search_terms or get_ad_groups returns has one row per
\* row of the result stream, in the order of the stream (batch after batch,
\* and within a batch row after row), each carrying the values streamed.
C21_FetchPreservesStream ==
  gads.pc = "returned" =>
    LET streamed == StreamRows(StreamOf(service, gads.method).batches)
    IN /\ gads.returned.columns =
            (IF gads.method = "get_search_terms" THEN SEARCH_REPORT_COLUMNS
             ELSE AD_GROUP_COLUMNS)
       /\ Len(gads.returned.data) = Len(streamed)
       /\ \A k \in 1..Len(streamed) :
            CarriesRow(gads.method, gads.returned.data[k], streamed[k])

\* get_search_terms returned the three rows of a stream of a batch of one row
\* and a batch of two different rows.
C21_Witness ==
  /\ gads.pc = "returned"
  /\ gads.method = "get_search_terms"
  /\ service.search_terms.batches =
       << <<QualifyingApiRow>>, <<OtherApiRow, QualifyingApiRow>> >>
  /\ Len(gads.returned.data) = 3

\* get_ad_groups returned the rows of a batch of two.
C21_AdGroupsReached ==
  /\ gads.pc = "returned"
  /\ gads.method = "get_ad_groups"
  /\ Len(gads.returned.data) = 2
  /\ gads.returned.data[1].ad_group_name = "ag2"

\* ------------------------------------------------------------ C22
\* Returned rows p and q are the exact row and the phrase row of one report
\* row.
ExactAndPhrase(p, q) ==
  /\ origin[p] = origin[q]
  /\ MatchTypeAt(p) = MATCH_TYPE_EXACT
  /\ MatchTypeAt(q) = MATCH_TYPE_PHRASE

\* C22: the exact row and the phrase row that one report row yields have the
\* same columns and the same value in every column, core or optional, other
\* than Keyword match type.
C22_ExactPhraseTwins ==
  Returned =>
    \A p, q \in OutputIndex :
      ExactAndPhrase(p, q) =>
        /\ DOMAIN result.data[p] = DOMAIN result.data[q]
        /\ \A c \in DOMAIN result.data[p] \ {SA_360_COLUMN_KEYWORD_MATCH_TYPE} :
             result.data[p][c] = result.data[q][c]

\* An exact and a phrase row of one report row in a table that has both
\* optional columns.
C22_Witness ==
  /\ Returned
  /\ SA_360_COLUMN_KEYWORD_LANDING_PAGE \in Range(result.columns)
  /\ SA_360_COLUMN_KEYWORD_MAX_CPC \in Range(result.columns)
  /\ \E p, q \in OutputIndex : ExactAndPhrase(p, q)

\* ------------------------------------------------------------ C23
\* Two report rows agree in the six fields the transform reads.
AgreeOnDecisionFields(r1, r2) ==
  /\ r1.search_term = r2.search_term
  /\ r1.conversions = r2.conversions
  /\ r1.clicks = r2.clicks
  /\ r1.ctr = r2.ctr
  /\ r1.ad_group_name = r2.ad_group_name
  /\ r1.campaign_name = r2.campaign_name

\* The returned rows that report row k produced, in their order.
OutputRowsOf(k) ==
  LET before == Cardinality({ p \in OutputIndex : origin[p] < k })
  IN [ j \in 1..Cardinality(OutputsOf(k)) |-> result.data[before + j] ]

\* C23: two rows of a report that agree in search_term, conversions, clicks,
\* ctr, ad_group_name and campaign_name yield the same rows, whatever their
\* status, keyword_text and campaign_id.
C23_NonDecisionFields ==
  Returned =>
    \A k, l \in ReportIndex :
      AgreeOnDecisionFields(search_results_df[k], search_results_df[l]) =>
        OutputRowsOf(k) = OutputRowsOf(l)

\* Two report rows that differ in status, keyword_text and campaign_id only,
\* and yielded rows.
C23_Witness ==
  /\ Returned
  /\ \E k, l \in ReportIndex :
       LET r1 == search_results_df[k]
           r2 == search_results_df[l]
       IN /\ AgreeOnDecisionFields(r1, r2)
          /\ r1.status # r2.status
          /\ r1.keyword_text # r2.keyword_text
          /\ r1.campaign_id # r2.campaign_id
          /\ OutputRowsOf(k) # <<>>
          /\ OutputRowsOf(k) = OutputRowsOf(l)

\* ------------------------------------------------------------ C24
\* The transform calls that have returned.
CallsReturned == { c \in 1..Len(calls) : calls[c].returned }

\* The transformer of a call asks for no optional column.
NoOptionalColumn(s) ==
  /\ s._keyword_landing_page = ""
  /\ (s._keyword_max_cpc.is_none \/ s._keyword_max_cpc.cents = 0)

\* C24: the list of constants.py stays the 8 core columns through every call;
\* during and after a call the transformer's fields and the two reports are
\* what they were when the call began; two calls of equal configuration on
\* equal reports return equal tables, whatever was called between them; and a
\* call whose transformer has no optional column returns exactly the 8 core
\* columns, whatever was called before it.
C24_PurityAcrossCalls ==
  /\ sa_360_bulksheet_columns = SA_360_BULKSHEET_COLUMNS
  /\ Len(sa_360_bulksheet_columns) = 8
  /\ pc \in {"loop", "returned"} =>
       /\ calls # <<>>
       /\ calls[Len(calls)].self = self
       /\ calls[Len(calls)].search_results_df = search_results_df
       /\ calls[Len(calls)].ad_groups = ad_groups
  /\ \A a, b \in CallsReturned :
       (/\ calls[a].self = calls[b].self
        /\ calls[a].search_results_df = calls[b].search_results_df
        /\ calls[a].ad_groups = calls[b].ad_groups) =>
         calls[a].result = calls[b].result
  /\ \A c \in CallsReturned :
       NoOptionalColumn(calls[c].self) =>
         /\ calls[c].result.columns = SA_360_BULKSHEET_COLUMNS
         /\ \A p \in 1..Len(calls[c].result.data) :
              Cardinality(DOMAIN calls[c].result.data[p]) = 8

\* A call that returned rows of 10 columns, followed by a call of a
\* transformer without optional columns that returned rows of 8.
C24_Witness ==
  \E a, b \in CallsReturned :
    /\ a < b
    /\ Len(calls[a].result.columns) = 10
    /\ calls[a].result.data # <<>>
    /\ NoOptionalColumn(calls[b].self)
    /\ Len(calls[b].result.columns) = 8
    /\ calls[b].result.data # <<>>

\* The same transformer was called twice on the same reports and returned the
\* same rows.
C24_RepeatReached ==
  \E a, b \in CallsReturned :
    /\ a < b
    /\ calls[a].self = calls[b].self
    /\ calls[a].search_results_df = calls[b].search_results_df
    /\ calls[a].ad_groups = calls[b].ad_groups
    /\ calls[a].result.data # <<>>
    /\ calls[a].result = calls[b].result

\* ------------------------------------------------------------ C30
\* The uploads that opened the remote file, and the last of them on a file.
Opening == { k \in 1..Len(sftp.log) : sftp.log[k].fails.at \in {"never", "write"} }

LastOpening(filename) ==
  CHOOSE k \in Opening :
    /\ sftp.log[k].bulksheet_filename = filename
    /\ \A l \in Opening :
         sftp.log[l].bulksheet_filename = filename => l <= k

\* The file name of each of the days explored.
FilenameOfDay(today) ==
  IF today = [ year |-> 2024, month |-> 1, day |-> 5 ]
    THEN "saka_bulkfile_Jan_05_2024.csv"
  ELSE IF today = [ year |-> 2024, month |-> 1, day |-> 6 ]
    THEN "saka_bulkfile_Jan_06_2024.csv"
  ELSE "saka_bulkfile_Dec_25_2024.csv"

\* The lines are the first n lines of the CSV of the table: the column names,
\* then the rows in order.
HoldsLinesOf(lines, df, n) ==
  /\ Len(lines) = n
  /\ n >= 1 => lines[1] = df.columns
  /\ \A p \in 2..n :
       /\ Len(lines[p]) = Len(df.columns)
       /\ \A c \in 1..Len(df.columns) :
            lines[p][c] = df.data[p - 1][df.columns[c]]

\* C30: an upload that gets as far as the remote file targets
\* saka_bulkfile_<Mon_DD_YYYY>.csv of its day, so that uploads of one day
\* target one file and uploads of different days different files; a file
\* holds the whole CSV of the last upload that opened it (the lines written
\* before the exception when its write failed) and nothing of an earlier
\* upload; and no remote file is left open, whether the write finished or
\* failed.
C30_UploadTarget ==
  /\ sftp.open = {}
  /\ \A k \in 1..Len(sftp.log) :
       sftp.log[k].fails.at # "connect" =>
         sftp.log[k].bulksheet_filename = FilenameOfDay(sftp.log[k].today)
  /\ \A k, l \in 1..Len(sftp.log) :
       (sftp.log[k].fails.at # "connect" /\ sftp.log[l].fails.at # "connect") =>
         ((sftp.log[k].bulksheet_filename = sftp.log[l].bulksheet_filename)
            <=> (sftp.log[k].today = sftp.log[l].today))
  /\ DOMAIN sftp.files = { sftp.log[k].bulksheet_filename : k \in Opening }
  /\ \A f \in DOMAIN sftp.files :
       LET last == sftp.log[LastOpening(f)]
       IN HoldsLinesOf(sftp.files[f], last.sa360_bulksheet_df,
                       IF last.fails.at = "never"
                         THEN Len(last.sa360_bulksheet_df.data) + 1
                         ELSE last.fails.after)

\* Two uploads of one day went through, the first of two rows and the second
\* of one: the file of the day holds the two lines of the second.
C30_Witness ==
  /\ Len(sftp.log) = 2
  /\ sftp.log[1].fails.at = "never"
  /\ sftp.log[2].fails.at = "never"
  /\ sftp.log[1].today = sftp.log[2].today
  /\ Len(sftp.log[1].sa360_bulksheet_df.data) = 2
  /\ Len(sftp.log[2].sa360_bulksheet_df.data) = 1
  /\ DOMAIN sftp.files = {"saka_bulkfile_Jan_05_2024.csv"}
  /\ Len(sftp.files["saka_bulkfile_Jan_05_2024.csv"]) = 2

\* Uploads of two days left two files.
C30_TwoDaysReached ==
  /\ Len(sftp.log) = 2
  /\ sftp.log[1].today # sftp.log[2].today
  /\ Cardinality(DOMAIN sftp.files) = 2

\* The write failed after the first line, and the file is closed.
C30_WriteFailureReached ==
  /\ Len(sftp.log) = 1
  /\ sftp.log[1].fails = [ at |-> "write", after |-> 1 ]
  /\ Len(sftp.files[sftp.log[1].bulksheet_filename]) = 1
  /\ sftp.open = {}

\* ------------------------------------------------------------ C27
\* C27: every report row yields no row, one row or two; every returned row
\* has match type broad, exact or phrase; a report row that yields a broad row
\* yields no other row; and the returned table has at most twice the rows of
\* the report.
C27_PerRowOutputBound ==
  Returned =>
    /\ \A p \in OutputIndex : origin[p] \in ReportIndex
    /\ \A k \in ReportIndex : Cardinality(OutputsOf(k)) \in {0, 1, 2}
    /\ \A p \in OutputIndex :
         MatchTypeAt(p) \in {MATCH_TYPE_BROAD, MATCH_TYPE_EXACT, MATCH_TYPE_PHRASE}
    /\ \A p, q \in OutputIndex :
         (MatchTypeAt(p) = MATCH_TYPE_BROAD /\ origin[q] = origin[p]) => q = p
    /\ Len(result.data) <= 2 * Len(search_results_df)

\* A report of two rows of which one yielded a broad row and the other an
\* exact and a phrase row: three rows returned.
C27_Witness ==
  /\ Returned
  /\ Len(search_results_df) = 2
  /\ Len(result.data) = 3
  /\ \E p \in OutputIndex : MatchTypeAt(p) = MATCH_TYPE_BROAD

\* ------------------------------------------------------------ C28
\* The rows of the ad-group report that have the name.
RowsNamed(name) == { p \in 1..Len(ad_groups) : ad_groups[p].ad_group_name = name }

\* The ctr of the first row of the ad-group report that has the name.
FirstCtr(name) ==
  ad_groups[CHOOSE p \in RowsNamed(name) : \A q \in RowsNamed(name) : p <= q].ctr

\* C28: a report row whose ad group the ad-group report names, once or
\* several times, is judged against the ctr of the first row of exactly that
\* name: without the conversions branch and with clicks over the threshold it
\* yields rows if and only if its ctr is over that ctr, whatever the later
\* rows of the name and the rows of other names hold.
C28_DuplicateAdGroupNames ==
  Returned =>
    \A k \in ReportIndex :
      LET r == search_results_df[k]
      IN (RowsNamed(r.ad_group_name) # {} /\ ~ConversionsOver(r) /\ ClicksOver(r))
           => ((OutputsOf(k) # {}) <=> r.ctr > FirstCtr(r.ad_group_name))

\* The ad-group report names the row's ad group twice, first with a ctr over
\* the row's and then with one under it, and the row yielded nothing.
C28_Witness ==
  /\ Returned
  /\ Len(ad_groups) = 2
  /\ ad_groups[1].ad_group_name = ad_groups[2].ad_group_name
  /\ \E k \in ReportIndex :
       LET r == search_results_df[k]
       IN /\ r.ad_group_name = ad_groups[1].ad_group_name
          /\ ClicksOver(r)
          /\ ad_groups[1].ctr > r.ctr
          /\ ad_groups[2].ctr < r.ctr
          /\ OutputsOf(k) = {}

\* A first row of another name with a ctr over the row's did not keep the row
\* from qualifying against the second.
C28_OtherNameReached ==
  /\ Returned
  /\ Len(ad_groups) = 2
  /\ ad_groups[1].ad_group_name = "AG1"
  /\ ad_groups[1].ctr = 10
  /\ ad_groups[2] = [ ad_group_name |-> "ag1", ctr |-> 1 ]
  /\ \E k \in ReportIndex : OutputsOf(k) # {}

\* ------------------------------------------------------------ C25
\* The request is the base query, alone or with the campaign restriction of
\* the settings.
IsRequestFor(request, base) ==
  request.query \in
    { base,
      base \o " AND campaign.id IN (" \o Join(settings["CAMPAIGN_IDS"].value)
        \o ")" }

\* The steps of a run that have completed.
SettingsValidated ==
  LET sanitized == SanitizedSettings(LoadedSettings(environ))
  IN ~sanitized.raised /\ settings = sanitized.settings

CredentialsRetrieved ==
  /\ retrieved # <<>>
  /\ retrieved[1] = "google_ads_api_credentials"
  /\ locals.google_ads_api_credentials # <<>>

SearchTermsFetched ==
  /\ sent # <<>>
  /\ IsRequestFor(sent[1], SEARCH_REPORT_QUERY)
  /\ locals.search_terms_df # NoFrame

AdGroupsFetched ==
  /\ Len(sent) = 2
  /\ IsRequestFor(sent[2], AD_GROUP_QUERY)
  /\ locals.ad_groups_df # NoFrame

Transformed ==
  /\ Len(calls) = 1
  /\ calls[1].search_results_df = locals.search_terms_df.data
  /\ calls[1].ad_groups = locals.ad_groups_df.data
  /\ calls[1].returned
  /\ calls[1].result = result

PasswordRetrieved ==
  /\ retrieved = << "google_ads_api_credentials", "sa360_sftp_password" >>
  /\ locals.sa_360_sftp_password # <<>>

\* C25: in a run of extract_and_upload_keywords a step has begun only when
\* every step before it has completed: a secret is requested only on validated
\* settings and the credentials first; a request is sent only with the
\* credentials, the search-term request first and the ad-group request once
\* the search-term report is there; the transformer is made only on the two
\* reports and called on them; the SFTP password is requested only once the
\* transform has returned; and the upload, the last step, is given the table
\* the transform returned.
C25_PipelineOrder ==
  /\ retrieved # <<>> =>
       SettingsValidated /\ retrieved[1] = "google_ads_api_credentials"
  /\ (gads # NoClient \/ sent # <<>>) => CredentialsRetrieved
  /\ sent # <<>> => IsRequestFor(sent[1], SEARCH_REPORT_QUERY)
  /\ Len(sent) >= 2 => SearchTermsFetched /\ Len(sent) = 2
                         /\ IsRequestFor(sent[2], AD_GROUP_QUERY)
  /\ pc # "none" => SearchTermsFetched /\ AdGroupsFetched
  /\ calls # <<>> =>
       /\ Len(calls) = 1
       /\ calls[1].search_results_df = locals.search_terms_df.data
       /\ calls[1].ad_groups = locals.ad_groups_df.data
  /\ "sa360_sftp_password" \in Range(retrieved) =>
       /\ Transformed
       /\ retrieved = << "google_ads_api_credentials", "sa360_sftp_password" >>
  /\ (uploads # <<>> \/ sftp # NoSftp) =>
       /\ SettingsValidated
       /\ CredentialsRetrieved
       /\ SearchTermsFetched
       /\ AdGroupsFetched
       /\ Transformed
       /\ PasswordRetrieved
       /\ uploads = << calls[1].result >>

\* A run went through every step and returned after the upload.
C25_Witness ==
  /\ mpc = "done"
  /\ uploads = << result >>
  /\ result.data # <<>>
  /\ sftp.files # << >>
  /\ Len(sent) = 2
  /\ retrieved = << "google_ads_api_credentials", "sa360_sftp_password" >>

\* ------------------------------------------------------------ C26
\* No item occurs twice in the sequence.
NoRepeat(s) == \A p, q \in 1..Len(s) : s[p] = s[q] => p = q

\* The requests sent for the base query.
RequestsFor(base) == { p \in 1..Len(sent) : IsRequestFor(sent[p], base) }

\* A step of the run that does anything but raise.
StepOn == MainNext /\ mpc' # "raised"

\* C26: in a run of extract_and_upload_keywords each secret is requested at
\* most once, at most one search-term request and one ad-group request are
\* sent, the transform is called at most once and at most one upload is
\* attempted; once the client or the transformer has raised, the only step
\* left is the run raising; and a run that has raised or returned takes no
\* further step.
C26_NoRetry ==
  /\ NoRepeat(retrieved)
  /\ Len(sent) <= 2
  /\ sent # <<>> =>
       /\ Cardinality(RequestsFor(SEARCH_REPORT_QUERY)) = 1
       /\ Cardinality(RequestsFor(AD_GROUP_QUERY)) = Len(sent) - 1
  /\ Len(calls) <= 1
  /\ Len(uploads) <= 1
  /\ Len(sftp.log) <= 1
  /\ (mpc \notin {"none", "raised", "done"} /\ (gads.pc = "raised" \/ pc = "raised"))
       => ~ENABLED StepOn
  /\ mpc \in {"raised", "done"} => ~ENABLED MainNext

\* The run has raised because the stream of get_ad_groups failed, after the
\* one request of each kind and before any later step.
C26_Witness ==
  /\ mpc = "raised"
  /\ gads.pc = "raised"
  /\ gads.method = "get_ad_groups"
  /\ Len(sent) = 2
  /\ retrieved = << "google_ads_api_credentials" >>
  /\ calls = <<>>
  /\ uploads = <<>>

\* The run has raised because the one upload failed.
C26_UploadFailureReached ==
  /\ mpc = "raised"
  /\ Len(uploads) = 1
  /\ Len(sftp.log) = 1
  /\ sftp.files = << >>

\* ------------------------------------------------------------ C29
\* C29: once the transform has returned an empty bulksheet, the run never
\* requests the SFTP password secret and never reaches the SA360 client: its
\* only step is to return 'Finished: No keywords found to upload to SA 360.',
\* whatever the SFTP password secret holds; and whenever the SFTP password has
\* been requested, the transform had returned a bulksheet that is not empty.
C29_EmptyBulksheetNoSecret ==
  /\ (BulksheetMade /\ result.data = <<>>) =>
       /\ "sa360_sftp_password" \notin Range(retrieved)
       /\ locals.sa_360_sftp_password = <<>>
       /\ uploads = <<>>
       /\ sftp = NoSftp
       /\ mpc \in {"transformer", "done"}
       /\ mpc = "done" =>
            outcome = [ kind |-> "return",
                        value |-> "Finished: No keywords found to upload to SA 360." ]
  /\ "sa360_sftp_password" \in Range(retrieved) =>
       BulksheetMade /\ result.data # <<>>

\* A run whose SFTP password secret is empty has returned 'Finished' on an
\* empty bulksheet made from a report that has rows.
C29_Witness ==
  /\ mpc = "done"
  /\ secrets["sa360_sftp_password"] = <<>>
  /\ search_results_df # <<>>
  /\ result.data = <<>>
  /\ outcome.value = "Finished: No keywords found to upload to SA 360."
  /\ retrieved = << "google_ads_api_credentials" >>

====
